---- MODULE Spec2Model ----
(***************************************************************************)
(* Cognitive Modules runtime (ziel-io/cognitive-modules): the runner's     *)
(* execution pipeline (run_module), the envelope conversions and the       *)
(* repair pass of src/src/cognitive/runner.py.                             *)
(*                                                                         *)
(* Encoding of Python values.                                              *)
(*  - A str is a sequence of one-character strings, so that strip, lower   *)
(*    and slicing are computed character by character.                     *)
(*  - A number is an integer count of hundredths (0.5 is 50, 1.0 is 100).  *)
(*  - A JSON scalar is a record [k, s, n]: k is its kind ("absent" for a   *)
(*    key that is not in the dict, "str", "num", "null", "obj" for a       *)
(*    nested dict such as the extensible risk {custom, reason}).           *)
(*  - A dict with known keys is a record holding one value per key; a key  *)
(*    the dict does not hold has kind "absent".  The field k of a dict     *)
(*    record says what the value really is: "dict", "absent" (no such      *)
(*    key in the parent), "null" or "other" (a str, a list, a number).     *)
(***************************************************************************)
EXTENDS Integers, Sequences, FiniteSets, TLC

VARIABLES
    pc,        \* position of the run_module call
    inp,       \* arguments of the call, the module on disk, the LLM behaviour
    result,    \* run_module's local `result` (and `output_data` before it)
    ret,       \* what the call gave back: nothing yet, an envelope, an exception
    norm,      \* the envelope as converted to v2.2, before validation and repair
    hist,      \* the pipeline steps executed so far, in order
    rp,        \* direct calls of repair_envelope: argument, results, caller's view
    fn,        \* a direct call of one of the pure functions: arguments, results
    fs         \* the registry: module roots on disk, install manifest, last command

vars == <<pc, inp, result, norm, ret, hist, rp, fn, fs>>

----------------------------------------------------------------------------
(* Bounds of the model *)

\* longest run of whitespace put around a generated string
MaxPad == 1
\* how far beyond max_explain_length a generated explain or rationale reaches
MaxOver == 2
\* longest list of risk-bearing items in data.changes / data.issues
MaxItems == 2

----------------------------------------------------------------------------
(* Strings *)

Spaces == {" ", "\t"}

UpperChars == <<"A","B","C","D","E","F","G","H","I","J","K","L","M",
                "N","O","P","Q","R","S","T","U","V","W","X","Y","Z">>
LowerChars == <<"a","b","c","d","e","f","g","h","i","j","k","l","m",
                "n","o","p","q","r","s","t","u","v","w","x","y","z">>

lower_char(c) ==
    IF \E i \in DOMAIN UpperChars : UpperChars[i] = c
    THEN LowerChars[CHOOSE i \in DOMAIN UpperChars : UpperChars[i] = c]
    ELSE c

upper_char(c) ==
    IF \E i \in DOMAIN LowerChars : LowerChars[i] = c
    THEN UpperChars[CHOOSE i \in DOMAIN LowerChars : LowerChars[i] = c]
    ELSE c

\* str.lower()
str_lower(s) == [i \in 1..Len(s) |-> lower_char(s[i])]

\* str.upper(), used to generate inputs only
str_upper(s) == [i \in 1..Len(s) |-> upper_char(s[i])]

\* str.strip(): drop the leading and the trailing whitespace
str_strip(s) ==
    IF \A i \in 1..Len(s) : s[i] \in Spaces
    THEN <<>>
    ELSE LET first == CHOOSE i \in 1..Len(s) :
                          s[i] \notin Spaces /\ \A j \in 1..(i-1) : s[j] \in Spaces
             last  == CHOOSE i \in 1..Len(s) :
                          s[i] \notin Spaces /\ \A j \in (i+1)..Len(s) : s[j] \in Spaces
         IN  SubSeq(s, first, last)

\* s[:n]
str_prefix(s, n) == IF Len(s) <= n THEN s ELSE SubSeq(s, 1, n)

Rep(c, n) == [i \in 1..n |-> c]

Padded(l, s, r) == Rep(" ", l) \o s \o Rep(" ", r)

DigitChars == <<"0","1","2","3","4","5","6","7","8","9">>

\* str(n) of a natural number
RECURSIVE nat_str(_)
nat_str(n) == IF n < 10 THEN <<DigitChars[n + 1]>>
              ELSE nat_str(n \div 10) \o <<DigitChars[(n % 10) + 1]>>

----------------------------------------------------------------------------
(* JSON scalars *)

Absent == [k |-> "absent", s |-> <<>>, n |-> 0]
Null   == [k |-> "null",   s |-> <<>>, n |-> 0]
Str(s) == [k |-> "str",    s |-> s,    n |-> 0]
Num(n) == [k |-> "num",    s |-> <<>>, n |-> n]
Obj(s) == [k |-> "obj",    s |-> s,    n |-> 0]

\* Python truthiness of a value fetched with dict.get(key, "")
Truthy(v) ==
    CASE v.k = "absent" -> FALSE
      [] v.k = "null"   -> FALSE
      [] v.k = "str"    -> Len(v.s) > 0
      [] v.k = "num"    -> v.n # 0
      [] v.k = "bool"   -> v.n # 0
      [] OTHER          -> TRUE

S_none    == <<"n","o","n","e">>
S_low     == <<"l","o","w">>
S_medium  == <<"m","e","d","i","u","m">>
S_high    == <<"h","i","g","h">>
S_severe  == <<"s","e","v","e","r","e">>
S_custom  == <<"c","u","s","t","o","m">>
S_ok      == <<"o","k">>
S_R       == <<"R">>
S_NoExplanation ==
    <<"N","o"," ","e","x","p","l","a","n","a","t","i","o","n"," ",
      "p","r","o","v","i","d","e","d">>
S_Ellipsis == <<".", ".", ".">>

----------------------------------------------------------------------------
(* Texts of the runner *)

S_ModuleQuote ==
    <<"M","o","d","u","l","e"," ","'">>
S_NotFoundTail ==
    <<"'"," ","n","o","t"," ","f","o","u","n","d",".">>
S_ModuleNotFoundMsg ==
    <<"M","o","d","u","l","e"," ","n","o","t"," ","f","o","u","n","d",":",
      " ">>
S_InputFailed ==
    <<"I","n","p","u","t"," ","v","a","l","i","d","a","t","i","o","n"," ","f",
      "a","i","l","e","d",".">>
S_ParseFailed ==
    <<"F","a","i","l","e","d"," ","t","o"," ","p","a","r","s","e"," ","L","L",
      "M"," ","r","e","s","p","o","n","s","e"," ","a","s"," ","J","S","O","N",
      ".">>
S_ParseMsg ==
    <<"F","a","i","l","e","d"," ","t","o"," ","p","a","r","s","e"," ","J","S",
      "O","N",":"," ">>
S_SchemaFailed ==
    <<"S","c","h","e","m","a"," ","v","a","l","i","d","a","t","i","o","n"," ",
      "f","a","i","l","e","d"," ","a","f","t","e","r"," ","r","e","p","a","i",
      "r"," ","a","t","t","e","m","p","t",".">>
S_MetaFailed ==
    <<"M","e","t","a"," ","s","c","h","e","m","a"," ","v","a","l","i","d","a",
      "t","i","o","n"," ","f","a","i","l","e","d"," ","a","f","t","e","r"," ",
      "r","e","p","a","i","r"," ","a","t","t","e","m","p","t",".">>
S_InputErr ==
    <<"I","n","p","u","t"," ","v","a","l","i","d","a","t","i","o","n"," ","e",
      "r","r","o","r",":"," ">>
S_DataErr ==
    <<"D","a","t","a"," ","v","a","l","i","d","a","t","i","o","n"," ","e","r",
      "r","o","r",":"," ">>
S_MetaErr ==
    <<"M","e","t","a"," ","v","a","l","i","d","a","t","i","o","n"," ","e","r",
      "r","o","r",":"," ">>
S_AnErrorOccurred ==
    <<"A","n"," ","e","r","r","o","r"," ","o","c","c","u","r","r","e","d">>
S_UnknownError ==
    <<"U","n","k","n","o","w","n"," ","e","r","r","o","r">>
S_UNKNOWN ==
    <<"U","N","K","N","O","W","N">>
S_MODULE_NOT_FOUND ==
    <<"M","O","D","U","L","E","_","N","O","T","_","F","O","U","N","D">>
S_INVALID_INPUT ==
    <<"I","N","V","A","L","I","D","_","I","N","P","U","T">>
S_PARSE_ERROR ==
    <<"P","A","R","S","E","_","E","R","R","O","R">>
S_SCHEMA_VALIDATION_FAILED ==
    <<"S","C","H","E","M","A","_","V","A","L","I","D","A","T","I","O","N","_",
      "F","A","I","L","E","D">>
S_META_VALIDATION_FAILED ==
    <<"M","E","T","A","_","V","A","L","I","D","A","T","I","O","N","_","F","A",
      "I","L","E","D">>
S_E1001 ==
    <<"E","1","0","0","1">>
S_InvalidInputText ==
    <<"I","n","v","a","l","i","d"," ","i","n","p","u","t">>
\* the envelope version of the wire format, and one an LLM may make up
S_2_2 == <<"2", ".", "2">>
S_9_9 == <<"9", ".", "9">>
S_demo ==
    <<"d","e","m","o">>

----------------------------------------------------------------------------
(* Risk aggregation *)

RISK_NAMES == <<S_none, S_low, S_medium, S_high>>

IsCanonicalRisk(v) == v.k = "str" /\ \E i \in DOMAIN RISK_NAMES : RISK_NAMES[i] = v.s

\* RISK_LEVELS.get(risk, 2)
RISK_LEVELS_get(v) ==
    IF IsCanonicalRisk(v)
    THEN (CHOOSE i \in DOMAIN RISK_NAMES : RISK_NAMES[i] = v.s) - 1
    ELSE 2

Max(a, b) == IF a >= b THEN a ELSE b
Min(a, b) == IF a <= b THEN a ELSE b

\* A list value: k is "absent" (no such key) or "list"; an item is a record
\* [k, risk] with k "dict" or "other" (an item that is not a dict).
NoList       == [k |-> "absent", items |-> <<>>]
ListOf(its)  == [k |-> "list",   items |-> its]
Item(risk)   == [k |-> "dict",  risk |-> risk]
BadItem      == [k |-> "other", risk |-> Absent]

\* The loop of aggregate_risk_from_list raises on an item without .get (not a
\* dict) and on a risk that cannot be a dict key (a nested dict or list).
ItemRaises(it) == it.k # "dict" \/ it.risk.k = "obj"

ItemLevel(it) == IF it.risk.k = "absent" THEN 2 ELSE RISK_LEVELS_get(it.risk)

RECURSIVE MaxLevel(_, _)
MaxLevel(items, acc) ==
    IF items = <<>> THEN acc
    ELSE MaxLevel(Tail(items), Max(acc, ItemLevel(Head(items))))

\* aggregate_risk_from_list(items); the result is [raised, v]
aggregate_risk_from_list(lst) ==
    IF lst.k = "absent" \/ lst.items = <<>>
    THEN [raised |-> FALSE, v |-> S_medium]
    ELSE IF \E i \in DOMAIN lst.items : ItemRaises(lst.items[i])
    THEN [raised |-> TRUE, v |-> <<>>]
    ELSE [raised |-> FALSE, v |-> RISK_NAMES[MaxLevel(lst.items, 0) + 1]]

\* aggregate_risk(data, risk_rule): data.get raises when data is not a dict
aggregate_risk(data, risk_rule) ==
    IF risk_rule = "explicit"
    THEN [raised |-> FALSE, v |-> S_medium]
    ELSE IF data.k # "dict"
    THEN [raised |-> TRUE, v |-> <<>>]
    ELSE IF risk_rule = "max_issues_risk"
    THEN aggregate_risk_from_list(data.issues)
    ELSE aggregate_risk_from_list(data.changes)

----------------------------------------------------------------------------
(* Dicts: data payload, meta, error, envelope *)

Bool(b) == [k |-> "bool", s |-> <<>>, n |-> IF b THEN 1 ELSE 0]

\* The data payload.  order is the dict's key order (Python dicts keep it);
\* ok is the payload's own "ok" key, held only by a legacy document.
Payload(k, order, confidence, rationale, changes, issues) ==
    [k |-> k, order |-> order, ok |-> Absent, confidence |-> confidence,
     rationale |-> rationale, changes |-> changes, issues |-> issues]

EmptyDict == Payload("dict",   <<>>, Absent, Absent, NoList, NoList)
NoData    == Payload("absent", <<>>, Absent, Absent, NoList, NoList)
NullData  == Payload("null",   <<>>, Absent, Absent, NoList, NoList)
OtherData == Payload("other",  <<>>, Absent, Absent, NoList, NoList)

\* dict.get("data") / dict.get("partial_data"): None when the key is missing
GetOrNone(d) == IF d.k = "absent" THEN NullData ELSE d

\* dict.get("data", {})
GetOrEmpty(d) == IF d.k = "absent" THEN EmptyDict ELSE d

Meta(confidence, risk, explain) ==
    [k |-> "dict", confidence |-> confidence, risk |-> risk, explain |-> explain,
     latency_ms |-> Absent, model |-> Absent]

EmptyMeta == Meta(Absent, Absent, Absent)
NoMeta    == [EmptyMeta EXCEPT !.k = "absent"]
OtherMeta == [EmptyMeta EXCEPT !.k = "other"]

Err(code, message) == [k |-> "dict", code |-> code, message |-> message]
NoErr    == [k |-> "absent", code |-> Absent, message |-> Absent]
OtherErr == [k |-> "other",  code |-> Absent, message |-> Absent]

\* A JSON document at envelope level: the envelope keys, and under top the
\* payload keys it carries at its top level (a legacy document is all top).
\* No code of the runner writes the key "version": an envelope holds it only
\* when the LLM wrote it.
Doc(ok, meta, data, error, partial_data, top) ==
    [k |-> "dict", ok |-> ok, meta |-> meta, data |-> data, error |-> error,
     partial_data |-> partial_data, top |-> top, version |-> Absent]

NoTop == NoData

----------------------------------------------------------------------------
(* Repair pass: runner.py repair_envelope *)

max_explain_length == 280

\* float(c) of an int, a float or a bool, in hundredths
AsFloat(v) == IF v.k = "bool" THEN v.n * 100 ELSE v.n

\* max(0.0, min(1.0, c))
Clamp(n) == Max(0, Min(100, n))

\* str(rationale) of a truthy rationale
AsStr(v) == IF v.k = "str" THEN v.s ELSE nat_str(v.n)

\* if len(explain) > max: explain[:max - 3] + "..."
Truncate(s) ==
    IF Len(s) > max_explain_length
    THEN str_prefix(s, max_explain_length - 3) \o S_Ellipsis
    ELSE s

\* variant of RepairConfidence: the clamp runs before the fill, so a
\* confidence taken from data is not clamped
RepairConfidence_clampfirst(meta, data_payload) ==
    LET clamped ==
            IF meta.confidence.k \in {"num", "bool"}
            THEN [meta EXCEPT !.confidence = Num(Clamp(AsFloat(meta.confidence)))]
            ELSE meta
    IN  IF meta.confidence.k = "absent" /\ data_payload.k # "dict"
        THEN [raised |-> TRUE, meta |-> meta]
        ELSE [raised |-> FALSE,
              meta |-> IF clamped.confidence.k # "absent" THEN clamped
                       ELSE [clamped EXCEPT !.confidence =
                                 IF data_payload.confidence.k = "absent" THEN Num(50)
                                 ELSE data_payload.confidence]]

\* "if 'confidence' not in meta" and the clamp that follows.
\* Each stage gives [raised, meta].
RepairConfidence(meta, data_payload) ==
    LET filled ==
            IF meta.confidence.k # "absent" THEN meta
            ELSE [meta EXCEPT !.confidence =
                      IF data_payload.confidence.k = "absent" THEN Num(50)
                      ELSE data_payload.confidence]
    IN  IF meta.confidence.k = "absent" /\ data_payload.k # "dict"
        THEN [raised |-> TRUE, meta |-> meta]
        ELSE [raised |-> FALSE,
              meta |-> IF filled.confidence.k \in {"num", "bool"}
                       THEN [filled EXCEPT !.confidence = Num(Clamp(AsFloat(filled.confidence)))]
                       ELSE filled]

\* variant of RepairRisk: a str risk that is not canonical after the trim is
\* replaced by "medium"
RepairRisk_defaulting(meta, data_payload, risk_rule) ==
    LET agg == aggregate_risk(data_payload, risk_rule)
        filled == IF meta.risk.k # "absent" THEN meta
                  ELSE [meta EXCEPT !.risk = Str(agg.v)]
        trimmed == Str(str_lower(str_strip(filled.risk.s)))
    IN  IF meta.risk.k = "absent" /\ agg.raised
        THEN [raised |-> TRUE, meta |-> meta]
        ELSE [raised |-> FALSE,
              meta |-> IF filled.risk.k = "str"
                       THEN [filled EXCEPT !.risk = IF IsCanonicalRisk(trimmed)
                                                    THEN trimmed ELSE Str(S_medium)]
                       ELSE filled]

\* "if 'risk' not in meta" and the trim of a str risk
RepairRisk(meta, data_payload, risk_rule) ==
    LET agg == aggregate_risk(data_payload, risk_rule)
        filled == IF meta.risk.k # "absent" THEN meta
                  ELSE [meta EXCEPT !.risk = Str(agg.v)]
    IN  IF meta.risk.k = "absent" /\ agg.raised
        THEN [raised |-> TRUE, meta |-> meta]
        ELSE [raised |-> FALSE,
              meta |-> IF filled.risk.k = "str"
                       THEN [filled EXCEPT !.risk = Str(str_lower(str_strip(filled.risk.s)))]
                       ELSE filled]

\* "if 'explain' not in meta", the trim and the truncation; len() of an
\* explain that is a number or null raises TypeError.
RepairExplain(meta, data_payload) ==
    LET filled ==
            IF meta.explain.k # "absent" THEN meta
            ELSE [meta EXCEPT !.explain =
                      IF Truthy(data_payload.rationale)
                      THEN Str(str_prefix(AsStr(data_payload.rationale), max_explain_length))
                      ELSE Str(S_NoExplanation)]
        trimmed == IF filled.explain.k = "str"
                   THEN [filled EXCEPT !.explain = Str(str_strip(filled.explain.s))]
                   ELSE filled
    IN  IF meta.explain.k = "absent" /\ data_payload.k # "dict"
        THEN [raised |-> TRUE, meta |-> meta]
        ELSE IF trimmed.explain.k # "str"
        THEN [raised |-> TRUE, meta |-> trimmed]
        ELSE [raised |-> FALSE,
              meta |-> [trimmed EXCEPT !.explain = Str(Truncate(trimmed.explain.s))]]

\* variant of repair_envelope: a data payload without rationale is given one
repair_envelope_fillrationale(data, risk_rule) ==
    LET shared == data.meta.k # "absent"
        meta0 == IF shared THEN data.meta ELSE EmptyMeta
        data_payload == GetOrEmpty(data.data)
        c == RepairConfidence(meta0, data_payload)
        r == RepairRisk(c.meta, data_payload, risk_rule)
        e == RepairExplain(r.meta, data_payload)
        raised == meta0.k # "dict" \/ c.raised \/ r.raised \/ e.raised
        metaN == IF meta0.k # "dict" THEN meta0
                 ELSE IF c.raised THEN c.meta
                 ELSE IF r.raised THEN r.meta
                 ELSE e.meta
        filled == IF data_payload.k = "dict" /\ data_payload.rationale.k = "absent"
                  THEN [data_payload EXCEPT !.rationale = Str(S_NoExplanation)]
                  ELSE data.data
    IN  [raised |-> raised,
         ret    |-> [data EXCEPT !.meta = metaN, !.data = filled],
         arg    |-> IF shared THEN [data EXCEPT !.meta = metaN] ELSE data]

\* variant of repair_envelope: data_payload = repaired.setdefault("data", {}),
\* which gives the result a data key the argument did not have
repair_envelope_setdefault(data, risk_rule) ==
    LET shared == data.meta.k # "absent"
        meta0 == IF shared THEN data.meta ELSE EmptyMeta
        data_payload == GetOrEmpty(data.data)
        c == RepairConfidence(meta0, data_payload)
        r == RepairRisk(c.meta, data_payload, risk_rule)
        e == RepairExplain(r.meta, data_payload)
        raised == meta0.k # "dict" \/ c.raised \/ r.raised \/ e.raised
        metaN == IF meta0.k # "dict" THEN meta0
                 ELSE IF c.raised THEN c.meta
                 ELSE IF r.raised THEN r.meta
                 ELSE e.meta
    IN  [raised |-> raised,
         ret    |-> [data EXCEPT !.meta = metaN, !.data = data_payload],
         arg    |-> IF shared THEN [data EXCEPT !.meta = metaN] ELSE data]

\* repair_envelope(data, meta_schema, risk_rule=risk_rule).  `repaired =
\* dict(data)` copies the top level only: a meta the argument already holds
\* is the very object the function then writes to.  The result is
\*   raised - an exception left the function,
\*   ret    - the envelope returned (when not raised),
\*   arg    - the argument as its owner sees it after the call.
repair_envelope(data, risk_rule) ==
    LET shared == data.meta.k # "absent"
        meta0 == IF shared THEN data.meta ELSE EmptyMeta
        data_payload == GetOrEmpty(data.data)
        c == RepairConfidence(meta0, data_payload)
        r == RepairRisk(c.meta, data_payload, risk_rule)
        e == RepairExplain(r.meta, data_payload)
        raised == meta0.k # "dict" \/ c.raised \/ r.raised \/ e.raised
        metaN == IF meta0.k # "dict" THEN meta0
                 ELSE IF c.raised THEN c.meta
                 ELSE IF r.raised THEN r.meta
                 ELSE e.meta
    IN  [raised |-> raised,
         ret    |-> [data EXCEPT !.meta = metaN],
         arg    |-> IF shared THEN [data EXCEPT !.meta = metaN] ELSE data]

----------------------------------------------------------------------------
(* Envelope detection and conversion *)

\* isinstance(data.get("ok"), bool)
is_envelope_response(data) == data.ok.k = "bool"

\* is_envelope_response(data) and "meta" in data
is_v22_envelope(data) == is_envelope_response(data) /\ data.meta.k # "absent"

\* rationale[:280] if rationale else "No explanation provided"; slicing a
\* truthy rationale that is not a str raises TypeError.  Gives [raised, v].
ExplainOfRationale(rationale) ==
    IF ~Truthy(rationale) THEN [raised |-> FALSE, v |-> S_NoExplanation]
    ELSE IF rationale.k # "str" THEN [raised |-> TRUE, v |-> <<>>]
    ELSE [raised |-> FALSE, v |-> str_prefix(rationale.s, 280)]

\* The meta both conversions derive from a success payload (always with the
\* default rule max_changes_risk).  Gives [raised, meta].
DerivedMeta(data) ==
    LET agg == aggregate_risk(data, "max_changes_risk")
        exp == ExplainOfRationale(data.rationale)
    IN  IF data.k # "dict" \/ agg.raised \/ exp.raised
        THEN [raised |-> TRUE, meta |-> EmptyMeta]
        ELSE [raised |-> FALSE,
              meta |-> Meta(IF data.confidence.k = "absent" THEN Num(50)
                            ELSE data.confidence,
                            Str(agg.v), Str(exp.v))]

\* variant of ErrorMeta: the success default 0.5 as the confidence of an error
ErrorMeta_half(message) == Meta(Num(50), Str(S_high), Str(str_prefix(message.s, 280)))

\* The meta of a converted error: message[:280] raises unless message is a str
ErrorMeta(message) == Meta(Num(0), Str(S_high), Str(str_prefix(message.s, 280)))

\* variant of wrap_v21_to_v22 without the early return for an envelope that
\* is already v2.2: the meta is derived again from the payload
wrap_v21_to_v22_rewrap(v21_response) ==
    IF v21_response.ok = Bool(TRUE)
    THEN LET data == GetOrEmpty(v21_response.data)
             m == DerivedMeta(data)
         IN  [raised |-> m.raised,
              ret |-> Doc(Bool(TRUE), m.meta, data, NoErr, NoData, NoTop)]
    ELSE LET error == IF v21_response.error.k = "absent"
                      THEN Err(Str(S_UNKNOWN), Str(S_UnknownError))
                      ELSE v21_response.error
             message == IF error.message.k = "absent" THEN Str(S_AnErrorOccurred)
                        ELSE error.message
         IN  [raised |-> error.k # "dict" \/ message.k # "str",
              ret |-> Doc(Bool(FALSE), ErrorMeta(message), NoData, error,
                          GetOrNone(v21_response.partial_data), NoTop)]

\* wrap_v21_to_v22(v21_response); gives [raised, ret]
wrap_v21_to_v22(v21_response) ==
    IF is_v22_envelope(v21_response)
    THEN [raised |-> FALSE, ret |-> v21_response]
    ELSE IF v21_response.ok = Bool(TRUE)
    THEN LET data == GetOrEmpty(v21_response.data)
             m == DerivedMeta(data)
         IN  [raised |-> m.raised,
              ret |-> Doc(Bool(TRUE), m.meta, data, NoErr, NoData, NoTop)]
    ELSE LET error == IF v21_response.error.k = "absent"
                      THEN Err(Str(S_UNKNOWN), Str(S_UnknownError))
                      ELSE v21_response.error
             message == IF error.message.k = "absent" THEN Str(S_AnErrorOccurred)
                        ELSE error.message
         IN  [raised |-> error.k # "dict" \/ message.k # "str",
              ret |-> Doc(Bool(FALSE), ErrorMeta(message), NoData, error,
                          GetOrNone(v21_response.partial_data), NoTop)]

\* str(error) of an error dict that has no message: the dict's repr
ReprOfErr(error) ==
    IF error.code.k = "str"
    THEN <<"{", "'", "c", "o", "d", "e", "'", ":", " ", "'">> \o error.code.s \o <<"'", "}">>
    ELSE <<"{", "}">>

\* convert_legacy_to_envelope(data); gives [raised, ret].  A legacy document
\* holds its payload keys under top; an error that is not a dict holds
\* str(error) as its message.
convert_legacy_to_envelope(data) ==
    IF data.error.k # "absent"
    THEN LET error == data.error
             error_msg == IF error.k = "dict" /\ error.message.k = "absent"
                          THEN Str(ReprOfErr(error))
                          ELSE error.message
         IN  [raised |-> error_msg.k # "str",
              ret |-> Doc(Bool(FALSE), ErrorMeta(error_msg), NoData,
                          Err(IF error.k = "dict" /\ error.code.k # "absent"
                              THEN error.code ELSE Str(S_UNKNOWN),
                              error_msg),
                          NullData, NoTop)]
    ELSE LET payload == [data.top EXCEPT !.k = "dict", !.ok = data.ok]
             m == DerivedMeta(payload)
         IN  [raised |-> m.raised,
              ret |-> Doc(Bool(TRUE), m.meta, payload, NoErr, NoData, NoTop)]

----------------------------------------------------------------------------
(* Schema validation: validate_data with the schemas a module carries *)

\* The schemas of the modelled modules, by name.  "none" is the empty
\* schema {} (or no schema at all), which the runner skips.
\*   requires_query     {type: object, required: [query],
\*                       properties: {query: {type: string}}}
\*   requires_rationale {type: object, required: [rationale],
\*                       properties: {rationale: {type: string}}}
\*   standard_meta      the meta schema the migrator writes
InputSchemas == {"none", "requires_query"}
DataSchemas  == {"none", "requires_rationale"}
MetaSchemas  == {"none", "standard_meta"}

\* jsonschema.validate(instance, schema) raises no ValidationError
jsonschema_valid(instance, schema) ==
    CASE schema = "requires_query" ->
             instance.k = "dict" /\ instance.query.k = "str"
      [] schema = "requires_rationale" ->
             instance.k = "dict" /\ instance.rationale.k = "str"
      [] schema = "standard_meta" ->
             /\ instance.k = "dict"
             /\ instance.confidence.k = "num"
             /\ instance.confidence.n >= 0
             /\ instance.confidence.n <= 100
             /\ instance.risk.k = "str"
             /\ instance.risk.s \in {S_none, S_low, S_medium, S_high}
             /\ instance.explain.k = "str"
             /\ Len(instance.explain.s) <= 280
             /\ instance.latency_ms.k \in {"absent", "num"}
             /\ instance.latency_ms.n >= 0
             /\ instance.model.k \in {"absent", "str"}
      [] OTHER -> TRUE

\* validate_data(data, schema, label): the list of errors
validate_data(data, schema, label) ==
    IF schema = "none" THEN <<>>
    ELSE IF jsonschema_valid(data, schema) THEN <<>>
    ELSE <<label>>

----------------------------------------------------------------------------
(* run_module: the envelopes the runner builds *)

ErrorEnvelope(confidence, risk, explain, code, message, partial_data) ==
    Doc(Bool(FALSE), Meta(Num(confidence), Str(risk), Str(explain)), NoData,
        Err(Str(code), Str(message)), partial_data, NoTop)

ModuleNotFound(name) ==
    ErrorEnvelope(100, S_high, S_ModuleQuote \o name \o S_NotFoundTail,
                  S_MODULE_NOT_FOUND, S_ModuleNotFoundMsg \o name, NullData)

InvalidInput(errors) ==
    ErrorEnvelope(100, S_none, S_InputFailed, S_INVALID_INPUT, errors[1], NullData)

ParseError ==
    ErrorEnvelope(0, S_high, S_ParseFailed, S_PARSE_ERROR, S_ParseMsg, NullData)

\* variant of SchemaValidationFailed: partial_data None, as in the setup errors
SchemaValidationFailed_nopartial(errors, res) ==
    ErrorEnvelope(0, S_high, S_SchemaFailed, S_SCHEMA_VALIDATION_FAILED, errors[1],
                  NullData)

SchemaValidationFailed(errors, res) ==
    ErrorEnvelope(0, S_high, S_SchemaFailed, S_SCHEMA_VALIDATION_FAILED, errors[1],
                  GetOrNone(res.data))

MetaValidationFailed(errors, res) ==
    ErrorEnvelope(0, S_high, S_MetaFailed, S_META_VALIDATION_FAILED, errors[1],
                  GetOrNone(res.data))

\* result["meta"]["latency_ms"] = latency_ms; if model: result["meta"]["model"] = model
\* Gives [raised, ret]: the item assignment raises when meta is not a dict.
StampMeta(res, has_model) ==
    IF res.meta.k = "absent" THEN [raised |-> FALSE, ret |-> res]
    ELSE IF res.meta.k # "dict" THEN [raised |-> TRUE, ret |-> res]
    ELSE [raised |-> FALSE,
          ret |-> [res EXCEPT !.meta.latency_ms = Num(1200),
                              !.meta.model = IF has_model THEN Str(S_demo)
                                             ELSE res.meta.model]]

\* lines 530-544: convert the parsed response to v2.2 and stamp its meta
NormalizeResponse(output_data, has_model) ==
    LET conv == IF is_v22_envelope(output_data)
                THEN [raised |-> FALSE, ret |-> output_data]
                ELSE IF is_envelope_response(output_data)
                THEN wrap_v21_to_v22(output_data)
                ELSE convert_legacy_to_envelope(output_data)
        st == StampMeta(conv.ret, has_model)
    IN  [raised |-> output_data.k # "dict" \/ conv.raised \/ st.raised,
         ret |-> st.ret]

----------------------------------------------------------------------------
(* Inputs: the envelopes handed to repair_envelope *)

Pads == 0..MaxPad

RiskBases == {S_low, S_high, S_severe}

RiskStrings ==
    UNION {{Padded(l, b, r), Padded(l, str_upper(b), r)} :
               l \in Pads, r \in Pads, b \in RiskBases}
    \cup {<<"\t">> \o S_medium \o <<"\t">>}

RiskAll   == {Absent, Null, Obj(S_custom)} \cup {Str(s) : s \in RiskStrings}
RiskSmall == {Absent, Str(S_low), Str(Padded(1, str_upper(S_severe), 0))}

ExplainCores ==
    {<<>>, S_ok, Rep("x", max_explain_length - 3), Rep("x", max_explain_length)}
    \cup {Rep("x", max_explain_length + over) : over \in 1..MaxOver}
    \cup {Rep("x", max_explain_length - 4) \o <<" ">> \o Rep("y", 3 + over) :
              over \in 1..MaxOver}

ExplainStrings == {Padded(l, c, r) : l \in Pads, r \in Pads, c \in ExplainCores}

ExplainAll   == {Absent, Null, Num(5)} \cup {Str(s) : s \in ExplainStrings}
ExplainSmall == {Absent, Str(S_ok),
                 Str(Padded(1, Rep("x", max_explain_length + 1), 1))}

ConfAll   == {Absent, Null, Str(S_high), Bool(TRUE),
              Num(-50), Num(0), Num(90), Num(100), Num(170)}
ConfSmall == {Absent, Num(90), Num(170)}

MetaAll ==
    {Meta(c, r, e) : c \in ConfAll, r \in RiskSmall, e \in ExplainSmall}
    \cup {Meta(c, r, e) : c \in ConfSmall, r \in RiskAll, e \in ExplainSmall}
    \cup {Meta(c, r, e) : c \in ConfSmall, r \in RiskSmall, e \in ExplainAll}
    \cup {NoMeta, OtherMeta}

MetaSmall == {NoMeta, EmptyMeta,
              Meta(Num(90), Str(S_low), Str(S_ok)),
              Meta(Num(170), Str(Padded(1, str_upper(S_high), 1)), Absent)}

RiskItems == {Item(Str(S_low)), Item(Str(S_high)), Item(Absent), Item(Obj(S_custom))}

RECURSIVE SeqsUpTo(_, _)
SeqsUpTo(S, n) ==
    IF n = 0 THEN {<<>>}
    ELSE LET shorter == SeqsUpTo(S, n - 1)
         IN  shorter \cup {Append(q, x) : q \in {t \in shorter : Len(t) = n - 1}, x \in S}

RiskLists == {ListOf(its) : its \in SeqsUpTo(RiskItems, MaxItems)}

LongRationale == Padded(1, Rep("r", max_explain_length + MaxOver), 0)

DataSmall ==
    {NoData, EmptyDict,
     Payload("dict", <<"rationale">>, Absent, Str(S_R), NoList, NoList),
     Payload("dict", <<"confidence", "rationale", "changes">>, Num(80), Str(S_R),
             ListOf(<<Item(Str(S_low)), Item(Str(S_high))>>), NoList)}

DataAll ==
    DataSmall
    \cup {NullData, OtherData,
          Payload("dict", <<"rationale", "confidence">>, Num(250), Str(LongRationale),
                  NoList, NoList),
          Payload("dict", <<"rationale">>, Absent, Num(7), NoList, NoList),
          Payload("dict", <<"rationale">>, Absent, Str(<<" ">>), NoList, NoList),
          Payload("dict", <<"changes">>, Absent, Absent, ListOf(<<BadItem>>), NoList)}
    \cup {Payload("dict", <<"changes">>, Absent, Absent, l, NoList) : l \in RiskLists}
    \cup {Payload("dict", <<"issues", "changes">>, Absent, Absent,
                  ListOf(<<Item(Str(S_none))>>), l) : l \in RiskLists}

RiskRules == {"max_changes_risk", "max_issues_risk", "explicit", "unknown_rule"}

\* success and error envelopes alike: repair_envelope does not look at ok
RepairInputs ==
    {Doc(Bool(ok), m, d, NoErr, NoData, NoTop) :
         ok \in BOOLEAN, m \in MetaAll, d \in DataSmall}
    \cup {Doc(Bool(ok), m, d, NoErr, NoData, NoTop) :
              ok \in BOOLEAN, m \in MetaSmall, d \in DataAll}

----------------------------------------------------------------------------
(* The repair pass called directly, once and then again on its own result *)

NoDoc  == Doc(Absent, NoMeta, NoData, NoErr, NoData, NoTop)
NoCall == [raised |-> FALSE, ret |-> NoDoc, arg |-> NoDoc]
NoRet  == [kind |-> "none", env |-> NoDoc]
NoInp  == [llm |-> "none"]

RpIdle == [phase |-> "idle", E |-> NoDoc, risk_rule |-> "max_changes_risk",
           first |-> NoCall, second |-> NoCall]

\* no pure function is being called, no registry command is being run
FnIdle == [f |-> "none"]
FsIdle == [phase |-> "idle"]

RunnerIdle ==
    /\ pc = "idle"
    /\ inp = NoInp
    /\ result = NoDoc
    /\ norm = NoDoc
    /\ ret = NoRet
    /\ hist = <<>>

InitRepair ==
    /\ RunnerIdle
    /\ fn = FnIdle
    /\ fs = FsIdle
    /\ \E E \in RepairInputs, rule \in RiskRules :
           rp = [phase |-> "start", E |-> E, risk_rule |-> rule,
                 first |-> NoCall, second |-> NoCall]

\* repaired = repair_envelope(E)
RepairOnce ==
    /\ rp.phase = "start"
    /\ rp' = [rp EXCEPT !.phase = "once",
                        !.first = repair_envelope(rp.E, rp.risk_rule)]
    /\ UNCHANGED <<pc, inp, result, norm, ret, hist, fn, fs>>

\* repair_envelope(repaired), for a first call that returned
RepairAgain ==
    /\ rp.phase = "once"
    /\ ~rp.first.raised
    /\ rp' = [rp EXCEPT !.phase = "twice",
                        !.second = repair_envelope(rp.first.ret, rp.risk_rule)]
    /\ UNCHANGED <<pc, inp, result, norm, ret, hist, fn, fs>>

NextRepair == RepairOnce \/ RepairAgain

SpecRepair == InitRepair /\ [][NextRepair]_vars

----------------------------------------------------------------------------
(* Inputs of run_module: the call, the module on disk, the LLM *)

\* a relative path of several short segments, longer than any explain may be
LongName == [i \in 1..(max_explain_length + MaxOver) |-> IF i % 2 = 0 THEN "/" ELSE "m"]

InputWithQuery    == [k |-> "dict", query |-> Str(S_ok)]
InputWithoutQuery == [k |-> "dict", query |-> Absent]

GoodMeta == Meta(Num(90), Str(S_low), Str(S_ok))
GoodData == Payload("dict", <<"rationale">>, Absent, Str(S_R), NoList, NoList)
SomeErr  == Err(Str(S_E1001), Str(S_InvalidInputText))

\* scenario 1 of the specification: a valid v2.2 success envelope
HappyDoc == Doc(Bool(TRUE), GoodMeta, GoodData, NoErr, NoData, NoTop)

MetaRun ==
    {GoodMeta, EmptyMeta, OtherMeta,
     Meta(Num(170), Str(S_low), Str(S_ok)),
     Meta(Num(90), Str(Padded(1, str_upper(S_high), 1)), Str(S_ok)),
     Meta(Num(90), Str(S_severe), Str(S_ok)),
     Meta(Num(90), Obj(S_custom), Str(S_ok)),
     Meta(Num(90), Str(S_low), Str(Rep("x", max_explain_length + MaxOver))),
     Meta(Num(90), Str(S_low), Num(5)),
     Meta(Str(S_high), Str(S_low), Absent)}

DataRun ==
    {NoData, EmptyDict, GoodData, OtherData,
     Payload("dict", <<"confidence", "rationale", "changes">>, Num(80), Str(S_R),
             ListOf(<<Item(Str(S_low)), Item(Str(S_high))>>), NoList),
     Payload("dict", <<"rationale", "confidence">>, Num(250), Str(LongRationale),
             NoList, NoList),
     Payload("dict", <<"rationale">>, Absent, Num(7), NoList, NoList),
     Payload("dict", <<"changes", "issues">>, Absent, Absent,
             ListOf(<<Item(Obj(S_custom))>>), ListOf(<<Item(Str(S_none))>>))}

\* v2.2 envelopes as an LLM may write them: right or wrong
DocsV22 ==
    {Doc(Bool(ok), m, d, e, NoData, NoTop) :
         ok \in BOOLEAN, m \in MetaRun, d \in DataRun, e \in {NoErr, SomeErr}}

\* v2.1 envelopes: no meta
DocsV21 ==
    {Doc(Bool(TRUE), NoMeta, d, NoErr, NoData, NoTop) : d \in DataRun}
    \cup {Doc(Bool(FALSE), NoMeta, NoData, e, pd, NoTop) :
              e \in {NoErr, SomeErr, OtherErr, Err(Str(S_E1001), Absent),
                     Err(Str(S_E1001), Num(5))},
              pd \in {NoData, GoodData}}

\* legacy documents: no boolean ok; the payload keys are at the top level
DocsLegacy ==
    {Doc(ok, NoMeta, NoData, NoErr, NoData, d) :
         ok \in {Absent, Str(S_ok)}, d \in {x \in DataRun : x.k = "dict"}}
    \cup {Doc(Absent, NoMeta, NoData, e, NoData, EmptyDict) :
              e \in {SomeErr, Err(Str(S_E1001), Absent), Err(Absent, Null),
                     [OtherErr EXCEPT !.message = Str(S_UnknownError)]}}

DocsAll == DocsV22 \cup DocsV21 \cup DocsLegacy

DocsSmall ==
    {HappyDoc,
     Doc(Bool(TRUE), NoMeta, GoodData, NoErr, NoData, NoTop),
     Doc(Bool(TRUE), EmptyMeta, EmptyDict, NoErr, NoData, NoTop),
     Doc(Bool(TRUE), Meta(Num(170), Absent, Absent),
         Payload("dict", <<"issues", "rationale">>, Absent, Str(S_R), NoList,
                 ListOf(<<Item(Str(S_high))>>)),
         NoErr, NoData, NoTop),
     Doc(Bool(FALSE), NoMeta, NoData, SomeErr, NoData, NoTop),
     Doc(Absent, NoMeta, NoData, NoErr, NoData, GoodData),
     Doc(Bool(TRUE), NoMeta,
         Payload("dict", <<"rationale", "issues">>, Absent, Str(S_R), NoList,
                 ListOf(<<Item(Str(S_high))>>)),
         NoErr, NoData, NoTop),
     Doc(Absent, NoMeta, NoData, NoErr, NoData,
         Payload("dict", <<"rationale", "changes", "issues">>, Absent, Str(S_R),
                 ListOf(<<Item(Str(S_high))>>), ListOf(<<Item(Str(S_low))>>))),
     [HappyDoc EXCEPT !.version = Str(S_2_2)],
     [HappyDoc EXCEPT !.version = Str(S_9_9)]}

BaseInp ==
    [name |-> S_demo, path_is_dir |-> FALSE, found |-> TRUE, disk |-> "ok",
     input_schema |-> "requires_query", input_data |-> InputWithQuery,
     validate_input |-> TRUE, validate_output |-> TRUE, enable_repair |-> TRUE,
     has_model |-> FALSE, data_schema |-> "requires_rationale",
     meta_schema |-> "standard_meta", risk_rule |-> "max_changes_risk",
     llm |-> "object", doc |-> HappyDoc]

\* where the module is, what its files are like, what the input is, and how
\* the LLM call ends.  find_module only returns a directory with a manifest.
Locations ==
    {loc \in BOOLEAN \X BOOLEAN \X {"ok", "no_manifest", "malformed"} :
         /\ (~loc[1] /\ loc[2]) => loc[3] # "no_manifest"
         /\ (~loc[1] /\ ~loc[2]) => loc[3] = "ok"}

SetupInputs ==
    {[BaseInp EXCEPT !.name = n, !.path_is_dir = loc[1], !.found = loc[2],
                     !.disk = loc[3],
                     !.input_schema = isch, !.input_data = idata,
                     !.validate_input = vi, !.llm = l,
                     !.doc = IF l = "object" THEN HappyDoc ELSE NoDoc] :
         n \in {S_demo, LongName}, loc \in Locations,
         isch \in InputSchemas, idata \in {InputWithQuery, InputWithoutQuery},
         vi \in BOOLEAN, l \in {"raises", "nonjson", "nonobject", "object"}}

\* what the LLM answers, against each module schema and validation flag
ResponseInputs ==
    {[BaseInp EXCEPT !.doc = d, !.validate_output = vo, !.enable_repair = er,
                     !.data_schema = ds, !.meta_schema = ms] :
         d \in DocsAll, vo \in BOOLEAN, er \in BOOLEAN,
         ds \in DataSchemas, ms \in MetaSchemas}
    \cup {[BaseInp EXCEPT !.doc = d, !.validate_output = vo, !.enable_repair = er,
                          !.data_schema = ds, !.meta_schema = ms,
                          !.has_model = hm, !.risk_rule = rule] :
              d \in DocsSmall, vo \in BOOLEAN, er \in BOOLEAN,
              ds \in DataSchemas, ms \in MetaSchemas, hm \in BOOLEAN,
              rule \in RiskRules}

RunInputs == SetupInputs \cup ResponseInputs

----------------------------------------------------------------------------
(* run_module, step by step *)

Step(name) == hist' = Append(hist, name)

Goto(next) == pc' = next /\ UNCHANGED ret

Return(env) == pc' = "returned" /\ ret' = [kind |-> "envelope", env |-> env]

Raise == pc' = "raised" /\ ret' = [kind |-> "raised", env |-> NoDoc]

Init ==
    /\ pc = "Resolve"
    /\ inp \in RunInputs
    /\ result = NoDoc
    /\ norm = NoDoc
    /\ ret = NoRet
    /\ hist = <<>>
    /\ rp = RpIdle
    /\ fn = FnIdle
    /\ fs = FsIdle

\* lines 451-467: the path itself when it is a directory, else find_module
Resolve ==
    /\ pc = "Resolve"
    /\ Step("Resolve")
    /\ IF inp.path_is_dir \/ inp.found
       THEN Goto("LoadModule")
       ELSE Return(ModuleNotFound(inp.name))
    /\ UNCHANGED <<inp, result, norm, rp, fn, fs>>

\* line 470: load_module; detect_format raises FileNotFoundError without a
\* manifest, the parsers raise on malformed files
LoadModule ==
    /\ pc = "LoadModule"
    /\ Step("LoadModule")
    /\ IF inp.disk = "ok" THEN Goto("ValidateInput") ELSE Raise
    /\ UNCHANGED <<inp, result, norm, rp, fn, fs>>

\* variant of ValidateInput: the input errors are not returned and the call
\* goes on to the prompt
ValidateInput_proceeds ==
    /\ pc = "ValidateInput"
    /\ Step("ValidateInput")
    /\ Goto("BuildPrompt")
    /\ UNCHANGED <<inp, result, norm, rp, fn, fs>>

\* lines 488-501
ValidateInput ==
    /\ pc = "ValidateInput"
    /\ Step("ValidateInput")
    /\ LET errors == validate_data(inp.input_data, inp.input_schema, S_InputErr)
       IN  IF inp.validate_input /\ inp.input_schema # "none" /\ errors # <<>>
           THEN Return(InvalidInput(errors))
           ELSE Goto("BuildPrompt")
    /\ UNCHANGED <<inp, result, norm, rp, fn, fs>>

\* lines 503-509
BuildPrompt ==
    /\ pc = "BuildPrompt"
    /\ Step("BuildPrompt")
    /\ Goto("CallLLM")
    /\ UNCHANGED <<inp, result, norm, rp, fn, fs>>

\* line 510: an exception of the dispatcher is not caught
CallLLM ==
    /\ pc = "CallLLM"
    /\ Step("CallLLM")
    /\ IF inp.llm = "raises" THEN Raise ELSE Goto("Parse")
    /\ UNCHANGED <<inp, result, norm, rp, fn, fs>>

\* lines 515-528: only json.JSONDecodeError is caught
Parse ==
    /\ pc = "Parse"
    /\ Step("Parse")
    /\ IF inp.llm = "nonjson"
       THEN Return(ParseError) /\ UNCHANGED result
       ELSE /\ Goto("Normalize")
            /\ result' = IF inp.llm = "object" THEN inp.doc
                         ELSE [NoDoc EXCEPT !.k = "other"]
    /\ UNCHANGED <<inp, norm, rp, fn, fs>>

\* lines 530-544
Normalize ==
    /\ pc = "Normalize"
    /\ Step("Normalize")
    /\ LET n == NormalizeResponse(result, inp.has_model)
       IN  IF n.raised
           THEN Raise /\ UNCHANGED <<result, norm>>
           ELSE Goto("ValidateData") /\ result' = n.ret /\ norm' = n.ret
    /\ UNCHANGED <<inp, rp, fn, fs>>

\* lines 547-560 and 567-577: without repair a data error is returned at once
ValidateData ==
    /\ pc = "ValidateData"
    /\ Step("ValidateData")
    /\ LET errors == validate_data(GetOrEmpty(result.data), inp.data_schema, S_DataErr)
       IN  IF ~(result.ok = Bool(TRUE) /\ inp.validate_output)
           THEN Return(result)
           ELSE IF inp.data_schema = "none" \/ errors = <<>>
           THEN Goto("ValidateMeta")
           ELSE IF inp.enable_repair
           THEN Goto("RepairData")
           ELSE Return(SchemaValidationFailed(errors, result))
    /\ UNCHANGED <<inp, result, norm, rp, fn, fs>>

\* line 562
RepairData ==
    /\ pc = "RepairData"
    /\ Step("RepairData")
    /\ LET r == repair_envelope(result, inp.risk_rule)
       IN  IF r.raised
           THEN Raise /\ UNCHANGED result
           ELSE Goto("RevalidateData") /\ result' = r.ret
    /\ UNCHANGED <<inp, norm, rp, fn, fs>>

\* lines 565-577
RevalidateData ==
    /\ pc = "RevalidateData"
    /\ Step("RevalidateData")
    /\ LET errors == validate_data(GetOrEmpty(result.data), inp.data_schema, S_DataErr)
       IN  IF errors # <<>>
           THEN Return(SchemaValidationFailed(errors, result))
           ELSE Goto("ValidateMeta")
    /\ UNCHANGED <<inp, result, norm, rp, fn, fs>>

\* lines 580-582 and 599: a meta error without repair falls through to the
\* final return
ValidateMeta ==
    /\ pc = "ValidateMeta"
    /\ Step("ValidateMeta")
    /\ LET meta_errors == validate_data(result.meta, inp.meta_schema, S_MetaErr)
       IN  IF inp.meta_schema # "none" /\ meta_errors # <<>> /\ inp.enable_repair
           THEN Goto("RepairMeta")
           ELSE Return(result)
    /\ UNCHANGED <<inp, result, norm, rp, fn, fs>>

\* line 583
RepairMeta ==
    /\ pc = "RepairMeta"
    /\ Step("RepairMeta")
    /\ LET r == repair_envelope(result, inp.risk_rule)
       IN  IF r.raised
           THEN Raise /\ UNCHANGED result
           ELSE Goto("RevalidateMeta") /\ result' = r.ret
    /\ UNCHANGED <<inp, norm, rp, fn, fs>>

\* lines 585-599
RevalidateMeta ==
    /\ pc = "RevalidateMeta"
    /\ Step("RevalidateMeta")
    /\ LET meta_errors == validate_data(result.meta, inp.meta_schema, S_MetaErr)
       IN  IF meta_errors # <<>>
           THEN Return(MetaValidationFailed(meta_errors, result))
           ELSE Return(result)
    /\ UNCHANGED <<inp, result, norm, rp, fn, fs>>

Next ==
    \/ Resolve
    \/ LoadModule
    \/ ValidateInput
    \/ BuildPrompt
    \/ CallLLM
    \/ Parse
    \/ Normalize
    \/ ValidateData
    \/ RepairData
    \/ RevalidateData
    \/ ValidateMeta
    \/ RepairMeta
    \/ RevalidateMeta

Spec == Init /\ [][Next]_vars

----------------------------------------------------------------------------
(* wrap_v21_to_v22 called directly, once and then again on its own result *)

InitWrap ==
    /\ RunnerIdle
    /\ rp = RpIdle
    /\ fs = FsIdle
    /\ \E E \in DocsAll :
           fn = [f |-> "wrap_v21_to_v22", phase |-> "start", E |-> E,
                 first |-> NoCall, second |-> NoCall]

\* W = wrap_v21_to_v22(E)
WrapOnce ==
    /\ fn.phase = "start"
    /\ LET w == wrap_v21_to_v22(fn.E)
       IN  fn' = [fn EXCEPT !.phase = "once",
                            !.first = [raised |-> w.raised, ret |-> w.ret, arg |-> fn.E]]
    /\ UNCHANGED <<pc, inp, result, norm, ret, hist, rp, fs>>

\* wrap_v21_to_v22(W), for a first call that returned
WrapAgain ==
    /\ fn.phase = "once"
    /\ ~fn.first.raised
    /\ LET w == wrap_v21_to_v22(fn.first.ret)
       IN  fn' = [fn EXCEPT !.phase = "twice",
                            !.second = [raised |-> w.raised, ret |-> w.ret,
                                        arg |-> fn.first.ret]]
    /\ UNCHANGED <<pc, inp, result, norm, ret, hist, rp, fs>>

NextWrap == WrapOnce \/ WrapAgain

SpecWrap == InitWrap /\ [][NextWrap]_vars

----------------------------------------------------------------------------
(* aggregate_risk_from_list called directly on a list of items *)

\* risk-bearing items: canonical risks, risks outside the enum (another
\* word, another case, null, the extensible object), and no risk at all
AggItems ==
    {Item(Str(s)) : s \in {S_none, S_low, S_medium, S_high, S_severe, str_upper(S_high)}}
    \cup {Item(Absent), Item(Null), Item(Obj(S_custom))}

AggLists == {ListOf(its) : its \in SeqsUpTo(AggItems, MaxItems)}

InitRisk ==
    /\ RunnerIdle
    /\ rp = RpIdle
    /\ fs = FsIdle
    /\ \E L \in AggLists :
           fn = [f |-> "aggregate_risk_from_list", phase |-> "start", L |-> L,
                 out |-> [raised |-> FALSE, v |-> <<>>]]

Aggregate ==
    /\ fn.phase = "start"
    /\ fn' = [fn EXCEPT !.phase = "done", !.out = aggregate_risk_from_list(fn.L)]
    /\ UNCHANGED <<pc, inp, result, norm, ret, hist, rp, fs>>

NextRisk == Aggregate

SpecRisk == InitRisk /\ [][NextRisk]_vars

----------------------------------------------------------------------------
(* validator.py validate_v22_envelope called directly on a response *)

\* The error texts of validate_v22_envelope, by name; got is the value an
\* f-string puts into the text.
VErr(msg, got) == [msg |-> msg, got |-> got]

\* lines 519-537: the checks of meta.  len() of an explain that is not a
\* str (None, a number) raises TypeError, and so does `in` on a meta that is
\* None; gives [raised, errors].
ValidateV22Meta(meta) ==
    IF meta.k = "absent"
    THEN [raised |-> FALSE, errors |-> <<VErr("Missing 'meta' field (required for v2.2)", Absent)>>]
    ELSE IF meta.k = "null"
    THEN [raised |-> TRUE, errors |-> <<>>]
    ELSE LET ec == IF meta.confidence.k = "absent"
                   THEN <<VErr("meta missing 'confidence'", Absent)>>
                   ELSE IF meta.confidence.k \notin {"num", "bool"}
                   THEN <<VErr("meta.confidence must be a number", Absent)>>
                   ELSE IF ~(0 <= meta.confidence.n /\ meta.confidence.n <= 100)
                   THEN <<VErr("meta.confidence must be between 0 and 1", Absent)>>
                   ELSE <<>>
             er == IF meta.risk.k = "absent"
                   THEN <<VErr("meta missing 'risk'", Absent)>>
                   ELSE IF ~IsCanonicalRisk(meta.risk)
                   THEN <<VErr("meta.risk must be none|low|medium|high, got: ", meta.risk)>>
                   ELSE <<>>
             ee == IF meta.explain.k = "absent"
                   THEN <<VErr("meta missing 'explain'", Absent)>>
                   ELSE IF meta.explain.k = "str" /\ Len(meta.explain.s) > 280
                   THEN <<VErr("meta.explain exceeds 280 chars", Num(Len(meta.explain.s)))>>
                   ELSE <<>>
         IN  [raised |-> meta.explain.k \notin {"absent", "str"},
              errors |-> ec \o er \o ee]

\* lines 539-558: data on success, error on failure, by the truth of ok
ValidateV22Body(response) ==
    IF Truthy(response.ok)
    THEN IF response.data.k = "absent"
         THEN [raised |-> FALSE, errors |-> <<VErr("Success response missing 'data' field", Absent)>>]
         ELSE IF response.data.k = "null"
         THEN [raised |-> TRUE, errors |-> <<>>]
         ELSE [raised |-> FALSE,
               errors |-> IF response.data.rationale.k = "absent"
                          THEN <<VErr("data missing 'rationale' (recommended for audit)", Absent)>>
                          ELSE <<>>]
    ELSE IF response.error.k = "absent"
         THEN [raised |-> FALSE, errors |-> <<VErr("Error response missing 'error' field", Absent)>>]
         ELSE [raised |-> FALSE,
               errors |-> (IF response.error.code.k = "absent"
                           THEN <<VErr("error missing 'code'", Absent)>> ELSE <<>>)
                          \o (IF response.error.message.k = "absent"
                              THEN <<VErr("error missing 'message'", Absent)>> ELSE <<>>)]

\* validate_v22_envelope(response); gives [raised, valid, errors]
validate_v22_envelope(response) ==
    IF response.ok.k = "absent"
    THEN [raised |-> FALSE, valid |-> FALSE, errors |-> <<VErr("Missing 'ok' field", Absent)>>]
    ELSE LET m == ValidateV22Meta(response.meta)
             b == ValidateV22Body(response)
             errors == m.errors \o b.errors
         IN  IF m.raised \/ b.raised
             THEN [raised |-> TRUE, valid |-> FALSE, errors |-> <<>>]
             ELSE [raised |-> FALSE, valid |-> errors = <<>>, errors |-> errors]

\* responses handed to the validator: right and wrong in every part
EnvConfs    == {Absent, Str(S_high), Num(-50), Num(0), Num(90), Num(100), Num(170)}
EnvRisks    == {Absent, Obj(S_custom)}
               \cup {Str(s) : s \in {S_none, S_low, S_medium, S_high, S_severe}}
EnvExplains == {Absent, Null, Str(S_ok), Str(Rep("x", max_explain_length))}
               \cup {Str(Rep("x", max_explain_length + over)) : over \in 1..MaxOver}
EnvMetas    == {NoMeta} \cup {Meta(c, r, e) : c \in EnvConfs, r \in EnvRisks, e \in EnvExplains}
EnvErrs     == {NoErr, SomeErr, Err(Str(S_E1001), Absent), Err(Absent, Str(S_InvalidInputText))}

EnvelopeInputs ==
    {Doc(ok, m, d, e, NoData, NoTop) :
         ok \in {Absent, Bool(TRUE), Bool(FALSE)}, m \in EnvMetas,
         d \in {NoData, EmptyDict, GoodData}, e \in EnvErrs}

InitEnvelope ==
    /\ RunnerIdle
    /\ rp = RpIdle
    /\ fs = FsIdle
    /\ \E E \in EnvelopeInputs :
           fn = [f |-> "validate_v22_envelope", phase |-> "start", E |-> E,
                 out |-> [raised |-> FALSE, valid |-> FALSE, errors |-> <<>>]]

ValidateEnvelope ==
    /\ fn.phase = "start"
    /\ fn' = [fn EXCEPT !.phase = "done", !.out = validate_v22_envelope(fn.E)]
    /\ UNCHANGED <<pc, inp, result, norm, ret, hist, rp, fs>>

NextEnvelope == ValidateEnvelope

SpecEnvelope == InitEnvelope /\ [][NextEnvelope]_vars

----------------------------------------------------------------------------
(* runner.py substitute_arguments called directly on a template *)

\* longest template, in placeholders and literal pieces
MaxPieces == 3

S_ARGUMENTS == <<"$", "A", "R", "G", "U", "M", "E", "N", "T", "S">>

\* f"$ARGUMENTS[{i}]" and f"${i}"
IndexedRef(i) == S_ARGUMENTS \o <<"[">> \o nat_str(i) \o <<"]">>
DollarRef(i)  == <<"$">> \o nat_str(i)

\* the positions from `from` on at which old occurs in s
Occurrences(s, old, from) ==
    {p \in from..(Len(s) - Len(old) + 1) : SubSeq(s, p, p + Len(old) - 1) = old}

\* str.replace(old, new): every occurrence of old, left to right, without
\* overlap and without looking again at what was put in
RECURSIVE ReplaceFrom(_, _, _, _)
ReplaceFrom(s, old, new, from) ==
    LET occ == Occurrences(s, old, from)
        p == CHOOSE q \in occ : \A r \in occ : q <= r
    IN  IF occ = {} THEN SubSeq(s, from, Len(s))
        ELSE SubSeq(s, from, p - 1) \o new \o ReplaceFrom(s, old, new, p + Len(old))

str_replace(s, old, new) == ReplaceFrom(s, old, new, 1)

\* str.split(): the words between runs of whitespace
RECURSIVE SplitFrom(_, _)
SplitFrom(s, from) ==
    LET starts == {i \in from..Len(s) : s[i] \notin Spaces}
        start == CHOOSE i \in starts : \A j \in starts : i <= j
        stops == {i \in start..Len(s) : s[i] \in Spaces}
        stop == IF stops = {} THEN Len(s) + 1
                ELSE CHOOSE i \in stops : \A j \in stops : i <= j
    IN  IF starts = {} THEN <<>>
        ELSE <<SubSeq(s, start, stop - 1)>> \o SplitFrom(s, stop)

str_split(s) == SplitFrom(s, 1)

\* input_data.get("$ARGUMENTS", input_data.get("query", input_data.get("code", "")))
ArgsValue(input_data) ==
    IF input_data.arguments.k # "absent" THEN input_data.arguments
    ELSE IF input_data.query.k # "absent" THEN input_data.query
    ELSE IF input_data.code.k # "absent" THEN input_data.code
    ELSE Str(<<>>)

\* lines 344-347: for i, arg in enumerate(args_list), in ascending order
RECURSIVE ReplaceIndexed(_, _, _)
ReplaceIndexed(text, args_list, i) ==
    IF i >= Len(args_list) THEN text
    ELSE ReplaceIndexed(
             str_replace(str_replace(text, IndexedRef(i), args_list[i + 1]),
                         DollarRef(i), args_list[i + 1]),
             args_list, i + 1)

\* substitute_arguments(text, input_data)
substitute_arguments(text, input_data) ==
    LET args_value == ArgsValue(input_data)
        whole == IF args_value.k = "str" THEN args_value.s ELSE AsStr(args_value)
        replaced == str_replace(text, S_ARGUMENTS, whole)
    IN  IF args_value.k = "str"
        THEN ReplaceIndexed(replaced, str_split(args_value.s), 0)
        ELSE replaced

\* A template is a sequence of pieces: the placeholders and literal text.
PieceAll        == [kind |-> "all",     n |-> 0]
PieceIndexed(n) == [kind |-> "indexed", n |-> n]
PieceDollar(n)  == [kind |-> "dollar",  n |-> n]
PieceDash       == [kind |-> "lit",     n |-> 0]

Render(piece) ==
    CASE piece.kind = "all"     -> S_ARGUMENTS
      [] piece.kind = "indexed" -> IndexedRef(piece.n)
      [] piece.kind = "dollar"  -> DollarRef(piece.n)
      [] OTHER                  -> <<"-">>

RECURSIVE Concat(_)
Concat(ss) == IF ss = <<>> THEN <<>> ELSE Head(ss) \o Concat(Tail(ss))

TemplateText(pieces) == Concat([i \in DOMAIN pieces |-> Render(pieces[i])])

Pieces == {PieceAll, PieceDash, PieceIndexed(0), PieceIndexed(1),
           PieceDollar(0), PieceDollar(1), PieceDollar(10)}

\* "$0-$1-$2-$ARGUMENTS"
ExampleTemplate == <<PieceDollar(0), PieceDash, PieceDollar(1), PieceDash,
                     PieceDollar(2), PieceDash, PieceAll>>

Templates == SeqsUpTo(Pieces, MaxPieces) \cup {ExampleTemplate}

S_a_b_c    == <<"a", " ", "b", " ", "c">>
S_foo_bar  == <<"f", "o", "o", " ", " ", "b", "a", "r">>
S_11_words == <<"a", " ", "b", " ", "c", " ", "d", " ", "e", " ", "f", " ", "g", " ",
                "h", " ", "i", " ", "j", " ", "k">>

NoArgs == [arguments |-> Absent, query |-> Absent, code |-> Absent]

ArgInputs ==
    {NoArgs,
     [NoArgs EXCEPT !.arguments = Str(S_a_b_c)],
     [NoArgs EXCEPT !.arguments = Str(S_11_words)],
     [NoArgs EXCEPT !.arguments = Str(S_foo_bar), !.query = Str(S_ok)],
     [NoArgs EXCEPT !.query = Str(S_foo_bar), !.code = Str(S_ok)],
     [NoArgs EXCEPT !.code = Str(S_ok)],
     [NoArgs EXCEPT !.arguments = Num(7)]}

InitSubst ==
    /\ RunnerIdle
    /\ rp = RpIdle
    /\ fs = FsIdle
    /\ \E t \in Templates, d \in ArgInputs :
           fn = [f |-> "substitute_arguments", phase |-> "start", pieces |-> t,
                 input_data |-> d, out |-> <<>>]

Substitute ==
    /\ fn.phase = "start"
    /\ fn' = [fn EXCEPT !.phase = "done",
                        !.out = substitute_arguments(TemplateText(fn.pieces),
                                                     fn.input_data)]
    /\ UNCHANGED <<pc, inp, result, norm, ret, hist, rp, fs>>

NextSubst == Substitute

SpecSubst == InitSubst /\ [][NextSubst]_vars

----------------------------------------------------------------------------
(* Registry: registry.py, and the install and uninstall commands of cli.py *)

\* SEARCH_PATHS: project-local, user-global, system-wide
SEARCH_PATHS == <<"project", "user", "system">>

\* USER_MODULES_DIR
USER_MODULES_DIR == "user"

\* the values of COGNITIVE_MODULES_PATH, split at ":"
Overrides == {<<>>, <<"x1">>, <<"x1", "x2">>}

\* for p in custom.split(":"): paths.insert(0, Path(p))
RECURSIVE InsertAll(_, _)
InsertAll(paths, custom) ==
    IF custom = <<>> THEN paths
    ELSE InsertAll(<<Head(custom)>> \o paths, Tail(custom))

\* get_search_paths()
get_search_paths(env) == InsertAll(SEARCH_PATHS, env)

\* What is at a path: nothing, a directory without a manifest file, or a
\* module directory (one holding module.yaml, MODULE.md or module.md) that
\* passes validate_module or not, with the version its manifest file states.
NoDir    == [kind |-> "none",   valid |-> FALSE, version |-> 0]
PlainDir == [kind |-> "dir",    valid |-> FALSE, version |-> 0]
ModuleDir(valid, version) == [kind |-> "module", valid |-> valid, version |-> version]

\* _is_valid_module(path)
is_valid_module(content) == content.kind = "module"

\* the one module name of the model, and the names handed to uninstall
ModName == "m"
UninstallNames == {"m", "../other", "/data"}

\* base / name, as the file system resolves it: a ".." segment leaves the
\* base, an absolute name replaces it
Join(base, name) ==
    CASE name = "../other" -> <<"home", "other">>
      [] name = "/data"    -> <<"/", "data">>
      [] OTHER             -> <<base, name>>

\* target.name: the last segment of a path
PathName(path) == path[2]

AllRoots == {"project", "user", "system", "x1", "x2"}
DiskPaths == {<<r, ModName>> : r \in AllRoots} \cup {<<"home", "other">>, <<"/", "data">>}

\* find_module(name): the first search path that holds the module
RECURSIVE FindIn(_, _, _)
FindIn(disk, paths, name) ==
    IF paths = <<>> THEN "None"
    ELSE IF is_valid_module(disk[<<Head(paths), name>>]) THEN Head(paths)
    ELSE FindIn(disk, Tail(paths), name)

find_module(disk, env, name) == FindIn(disk, get_search_paths(env), name)

\* An entry of ~/.cognitive/installed.json
\* (None is "none"); module_path, tag and branch are what the install was
\* called with
NoEntry ==
    [k |-> "absent", source |-> "none", github_url |-> "none", version |-> 0,
     module_path |-> "none", tag |-> "none", branch |-> "none"]
GithubEntry(source, github_url, module_path, tag, branch, version) ==
    [k |-> "dict", source |-> source, github_url |-> github_url, version |-> version,
     module_path |-> module_path, tag |-> tag, branch |-> branch]
Entry(source, github_url, version) ==
    GithubEntry(source, github_url, "none", "none", "none", version)

\* get_installed_module_info(name)
get_installed_module_info(manifest, name) == manifest[name]

\* local directories a module is installed from
LocalSources ==
    [s \in {"./good1", "./good2", "./bad", "./plain", "./missing"} |->
        CASE s = "./good1" -> ModuleDir(TRUE, 1)
          [] s = "./good2" -> ModuleDir(TRUE, 2)
          [] s = "./bad"   -> ModuleDir(FALSE, 2)
          [] s = "./plain" -> PlainDir
          [] OTHER         -> NoDir]

\* GitHub repositories a module is added from, by org/repo; each holds the
\* module at its root and at the module path "sub", on every branch and tag
GithubRepos ==
    [u \in {"org/good", "org/bad"} |->
        IF u = "org/good" THEN ModuleDir(TRUE, 3) ELSE ModuleDir(FALSE, 3)]

\* the --module, --branch and --tag options of cog add (None is "none")
AddOptions ==
    {[module |-> "none", branch |-> "main", tag |-> "none"],
     [module |-> "sub",  branch |-> "dev",  tag |-> "none"],
     [module |-> "none", branch |-> "main", tag |-> "v1"],
     [module |-> "sub",  branch |-> "dev",  tag |-> "v1"]}

\* The result of an install function: raised is "no" or the exception, and
\* disk and manifest are as the function leaves them.
Installed(raised, disk, manifest, target) ==
    [raised |-> raised, disk |-> disk, manifest |-> manifest, target |-> target]

\* install_from_local(source, name)
install_from_local(disk, manifest, source, name) ==
    LET src == LocalSources[source]
        target == Join(USER_MODULES_DIR, name)
    IN  IF src.kind = "none"
        THEN Installed("FileNotFoundError", disk, manifest, target)
        ELSE IF ~is_valid_module(src)
        THEN Installed("ValueError", disk, manifest, target)
        ELSE Installed("no", [disk EXCEPT ![target] = src],
                       [manifest EXCEPT ![name] = Entry(source, "none", 0)], target)

\* install_from_github_url(url, module_path, name, branch, tag): the download
\* fails or not
install_from_github_url(disk, manifest, url, module_path, name, branch, tag, network_up) ==
    LET src == GithubRepos[url]
        target == Join(USER_MODULES_DIR, name)
    IN  IF ~network_up
        THEN Installed("RuntimeError", disk, manifest, target)
        ELSE Installed("no", [disk EXCEPT ![target] = src],
                       [manifest EXCEPT ![name] =
                           GithubEntry("tmp", url, module_path, tag, branch, src.version)],
                       target)

\* uninstall_module(name); gives [out, disk]
uninstall_module(disk, name) ==
    LET target == Join(USER_MODULES_DIR, name)
    IN  IF disk[target].kind # "none"
        THEN [out |-> TRUE, disk |-> [disk EXCEPT ![target] = NoDir]]
        ELSE [out |-> FALSE, disk |-> disk]

\* validate_module(str(target)) of a directory that exists
validate_module(disk, target) == disk[target].kind = "module" /\ disk[target].valid

\* cli.py install_cmd and add_cmd after the install function returned or
\* raised: validate, and uninstall_module(target.name) when that fails
ValidateOrRollBack(r) ==
    IF r.raised # "no"
    THEN [out |-> "install_failed", disk |-> r.disk, manifest |-> r.manifest]
    ELSE IF validate_module(r.disk, r.target)
    THEN [out |-> "installed", disk |-> r.disk, manifest |-> r.manifest]
    ELSE [out |-> "validation_failed",
          disk |-> uninstall_module(r.disk, PathName(r.target)).disk,
          manifest |-> r.manifest]

\* update_module(name); gives an install result
update_module(disk, manifest, name, network_up) ==
    LET info == get_installed_module_info(manifest, name)
    IN  IF info.k = "absent"
        THEN Installed("ValueError: not installed", disk, manifest, <<USER_MODULES_DIR, name>>)
        ELSE IF info.github_url = "none"
        THEN Installed("ValueError: not from GitHub", disk, manifest, <<USER_MODULES_DIR, name>>)
        ELSE install_from_github_url(disk, manifest, info.github_url, info.module_path,
                                     name,
                                     IF info.tag = "none" THEN info.branch ELSE "main",
                                     info.tag, network_up)


\* The registry as the commands find it.  before is the registry as the last
\* command found it; removed says that the last
\* command that touched the user-global module was an uninstall that
\* returned True.
NoCmd == [cmd |-> "none", name |-> "", out |-> ""]

\* the roots other than the user-global one that hold the module at the start
HolderSets == {{}, {"project"}, {"system", "x1"}, {"x1", "x2"}}

EmptyDisk ==
    [p \in DiskPaths |-> IF p[1] \in {"home", "/"} THEN PlainDir ELSE NoDir]

InitRegistry ==
    /\ RunnerIdle
    /\ rp = RpIdle
    /\ fn = FnIdle
    /\ \E env \in Overrides, holders \in HolderSets :
           LET disk == [p \in DiskPaths |->
                           IF p[1] \in holders THEN ModuleDir(TRUE, 1) ELSE EmptyDisk[p]]
               manifest == [n \in {ModName} |-> NoEntry]
           IN  fs = [env |-> env, disk |-> disk, manifest |-> manifest,
                     removed |-> FALSE, last |-> NoCmd,
                     before |-> [disk |-> disk, manifest |-> manifest,
                                 removed |-> FALSE]]

\* one command ran: what it left, and what it found
Ran(cmd, name, out, disk, manifest, removed) ==
    fs' = [fs EXCEPT !.disk = disk, !.manifest = manifest, !.removed = removed,
                     !.last = [cmd |-> cmd, name |-> name, out |-> out],
                     !.before = [disk |-> fs.disk, manifest |-> fs.manifest,
                                 removed |-> fs.removed]]

Idle == UNCHANGED <<pc, inp, result, norm, ret, hist, rp, fn>>

\* find_module(name)
FindModule ==
    /\ Ran("find", ModName, find_module(fs.disk, fs.env, ModName),
           fs.disk, fs.manifest, fs.removed)
    /\ Idle

\* cli.py install_cmd: cog install <source> --name m
InstallCmd ==
    /\ \E source \in DOMAIN LocalSources :
           LET r == ValidateOrRollBack(
                        install_from_local(fs.disk, fs.manifest, source, ModName))
           IN  Ran("install", ModName, r.out, r.disk, r.manifest,
                   fs.removed /\ r.out = "install_failed")
    /\ Idle

\* cli.py add_cmd: cog add <org/repo> --module .. --name m --branch .. --tag ..
AddCmd ==
    /\ \E url \in DOMAIN GithubRepos, network_up \in BOOLEAN, opt \in AddOptions :
           LET r == ValidateOrRollBack(
                        install_from_github_url(fs.disk, fs.manifest, url, opt.module,
                                                ModName, opt.branch, opt.tag, network_up))
           IN  Ran("add", ModName, r.out, r.disk, r.manifest,
                   fs.removed /\ r.out = "install_failed")
    /\ Idle

\* uninstall_module(name)
UninstallModule ==
    /\ \E name \in UninstallNames :
           LET r == uninstall_module(fs.disk, name)
           IN  Ran("uninstall", name, r.out, r.disk, fs.manifest,
                   IF name = ModName /\ r.out THEN TRUE ELSE fs.removed)
    /\ Idle

\* cli.py uninstall_cmd: cog uninstall <module>
UninstallCmd ==
    /\ \E name \in UninstallNames :
           IF fs.disk[Join(USER_MODULES_DIR, name)].kind = "none"
           THEN Ran("uninstall_cmd", name, "not_found", fs.disk, fs.manifest, fs.removed)
           ELSE LET r == uninstall_module(fs.disk, name)
                IN  Ran("uninstall_cmd", name, "uninstalled", r.disk, fs.manifest,
                        IF name = ModName THEN TRUE ELSE fs.removed)
    /\ Idle

\* update_module(name)
UpdateModule ==
    /\ \E network_up \in BOOLEAN :
           LET r == update_module(fs.disk, fs.manifest, ModName, network_up)
           IN  Ran("update", ModName, IF r.raised = "no" THEN "updated" ELSE r.raised,
                   r.disk, r.manifest, fs.removed /\ r.raised # "no")
    /\ Idle

NextRegistry ==
    \/ FindModule
    \/ InstallCmd
    \/ AddCmd
    \/ UninstallModule
    \/ UninstallCmd
    \/ UpdateModule

SpecRegistry == InitRegistry /\ [][NextRegistry]_vars

----------------------------------------------------------------------------
(* registry.py _record_module_source, statement by statement, run by two   *)
(* installs at once while a reader opens ~/.cognitive/installed.json        *)

\* The file installed.json: state is "missing", "whole" (a complete JSON
\* document holding the entries of the names in entries), "empty" (zero
\* bytes), "partial" (the beginning of a document) or "garbage" (bytes that
\* do not parse); writers are the processes that wrote bytes into it since
\* it was last truncated.
ManifestFile(state, entries, writers) ==
    [state |-> state, entries |-> entries, writers |-> writers]

\* the installs that run, and the module each one records
Installers == {"p1", "p2"}
InstalledName == [p \in Installers |-> IF p = "p1" THEN "a" ELSE "b"]

\* the manifest files an install can find
ManifestFiles ==
    {ManifestFile("missing", {}, {}), ManifestFile("whole", {}, {}),
     ManifestFile("whole", {"x"}, {}), ManifestFile("garbage", {}, {})}

NoRead == [state |-> "none", entries |-> {}]

InitManifest ==
    /\ RunnerIdle
    /\ rp = RpIdle
    /\ fn = FnIdle
    /\ \E file \in ManifestFiles :
           fs = [phase |-> "manifest", initial |-> file, file |-> file,
                 procs |-> [p \in Installers |->
                               [pc |-> "load", manifest |-> {}, flushed |-> FALSE]],
                 seen |-> NoRead]

\* json.load(f) of the file: the names it holds, or it raises
JsonLoad(file) ==
    IF file.state = "whole"
    THEN [raised |-> FALSE, entries |-> file.entries]
    ELSE [raised |-> TRUE, entries |-> {}]

\* lines 149-155 and 162: manifest = {}; when the file exists, json.load it,
\* and pass on any exception; then manifest[name] = {...}
RecordLoad(p) ==
    /\ fs.procs[p].pc = "load"
    /\ LET loaded == IF fs.file.state = "missing" THEN {}
                     ELSE JsonLoad(fs.file).entries
       IN  fs' = [fs EXCEPT !.procs[p].pc = "open",
                            !.procs[p].manifest = loaded \cup {InstalledName[p]}]
    /\ Idle

\* line 173: open(manifest_path, 'w') creates the file or truncates it
RecordOpen(p) ==
    /\ fs.procs[p].pc = "open"
    /\ fs' = [fs EXCEPT !.procs[p].pc = "dump",
                        !.file = ManifestFile("empty", {}, {})]
    /\ Idle

\* line 174: json.dump(manifest, f) writes into the buffer of f; the buffer
\* reaches the file when it is full (the beginning of the document is then
\* in the file) or stays in memory until the file is closed
RecordDump(p) ==
    /\ fs.procs[p].pc = "dump"
    /\ \/ fs' = [fs EXCEPT !.procs[p].pc = "close"]
       \/ fs' = [fs EXCEPT !.procs[p].pc = "close",
                           !.procs[p].flushed = TRUE,
                           !.file = ManifestFile(
                               IF fs.file.writers \subseteq {p} THEN "partial"
                               ELSE "garbage",
                               {}, fs.file.writers \cup {p})]
    /\ Idle

\* the end of the with block: the rest of the buffer is written at the
\* position of this writer and the file is closed.  The file holds the
\* document of this writer when nobody else wrote or truncated in between;
\* bytes written over the bytes of another writer give its document or
\* garbage, by the lengths of the two.
RecordClose(p) ==
    /\ fs.procs[p].pc = "close"
    /\ LET me    == fs.procs[p]
           mine  == ManifestFile("whole", me.manifest, fs.file.writers \cup {p})
           mixed == ManifestFile("garbage", {}, fs.file.writers \cup {p})
           alone == fs.file.writers \subseteq {p}
           torn  == me.flushed /\ p \notin fs.file.writers
       IN  \E file \in {mine, mixed} :
               /\ (alone /\ ~torn) => file = mine
               /\ torn => file = mixed
               /\ fs' = [fs EXCEPT !.procs[p].pc = "done", !.file = file]
    /\ Idle

\* get_installed_module_info of a third process opens and reads the file
ReadManifest ==
    /\ fs' = [fs EXCEPT !.seen = [state |-> fs.file.state,
                                  entries |-> fs.file.entries]]
    /\ Idle

NextManifest ==
    \/ \E p \in Installers : RecordLoad(p)
    \/ \E p \in Installers : RecordOpen(p)
    \/ \E p \in Installers : RecordDump(p)
    \/ \E p \in Installers : RecordClose(p)
    \/ ReadManifest

SpecManifest == InitManifest /\ [][NextManifest]_vars

----------------------------------------------------------------------------
(* Module directories: loader.py detect_format, detect_v2_version and       *)
(* load_v2_format, and the migration of migrate.py                          *)

\* how many migration commands run, each at a later second than the last
MaxRuns == 2

\* module.yaml.  A key the file does not hold is "absent"; tier: null is
\* "null"; overflow is "enabled" ({enabled: true, ...}), "disabled"
\* ({enabled: false, ...}) or "empty" ({}); enums is its strategy or "empty";
\* identity says that name, version and responsibility are all there.
NoYaml ==
    [k |-> "absent", identity |-> FALSE, tier |-> "absent",
     schema_strictness |-> "absent", overflow |-> "absent", enums |-> "absent",
     compat |-> "absent", io |-> "absent", policies |-> "absent"]
Yaml(tier, schema_strictness, overflow, enums, compat, policies) ==
    [k |-> "dict", identity |-> TRUE, tier |-> tier,
     schema_strictness |-> schema_strictness, overflow |-> overflow,
     enums |-> enums, compat |-> compat, io |-> "absent", policies |-> policies]

\* manifest.get(key) is truthy
YamlTruthy(v) == v \notin {"absent", "null", "empty"}

\* schema.json and its sections.  required is the set of names in the
\* required list; maxLength is properties.explain.maxLength.
NoDataSchema == [k |-> "absent", required |-> {}]
DataSchema(required) == [k |-> "dict", required |-> required]
NoMetaSchema == [k |-> "absent", required |-> {}, maxLength |-> Absent]
MetaSchema(required, maxLength) ==
    [k |-> "dict", required |-> required, maxLength |-> maxLength]
SchemaFile(meta, input, output, data, error, defs) ==
    [k |-> "dict", meta |-> meta, input |-> input, output |-> output,
     data |-> data, error |-> error, defs |-> defs]
EmptySchema == SchemaFile(NoMetaSchema, FALSE, NoDataSchema, NoDataSchema, FALSE, FALSE)
NoSchema == [EmptySchema EXCEPT !.k = "absent"]
InvalidSchema == [EmptySchema EXCEPT !.k = "invalid"]

\* A module directory: module.yaml, MODULE.md (v1) or module.md (v0),
\* schema.json, prompt.md ("v22" when its text holds both "meta" and
\* "envelope", else "plain"), and the output.schema.json of a v0 module
NoModule ==
    [kind |-> "none", yaml |-> NoYaml, md |-> "none", schema |-> NoSchema,
     prompt |-> "none", v0out |-> NoDataSchema]
ModuleFiles(yaml, md, schema, prompt, v0out) ==
    [kind |-> "dir", yaml |-> yaml, md |-> md, schema |-> schema,
     prompt |-> prompt, v0out |-> v0out]

\* detect_format(module_path)
detect_format(dir) ==
    IF dir.yaml.k # "absent" THEN "v2"
    ELSE IF dir.md = "MODULE.md" THEN "v1"
    ELSE IF dir.md = "module.md" THEN "v0"
    ELSE "FileNotFoundError"

\* detect_v2_version(manifest)
detect_v2_version(manifest) ==
    IF YamlTruthy(manifest.tier) \/ YamlTruthy(manifest.overflow)
           \/ YamlTruthy(manifest.enums)
    THEN "v2.2"
    ELSE IF YamlTruthy(manifest.policies) THEN "v2.1"
    ELSE "v2.0"

\* load_v2_format(module_path): format_version, and the required list of
\* data_schema
load_v2_format(dir) ==
    LET schema == dir.schema
        output_schema == IF schema.output.k = "dict" THEN schema.output ELSE DataSchema({})
        data_schema ==
            IF schema.k = "absent" THEN DataSchema({})
            ELSE IF dir.yaml.compat = "set" \/ schema.data.k = "dict"
            THEN (IF schema.data.k = "dict" THEN schema.data ELSE output_schema)
            ELSE output_schema
    IN  [format_version |-> detect_v2_version(dir.yaml),
         data_schema |-> data_schema]

\* _create_meta_schema()
create_meta_schema == MetaSchema({"confidence", "risk", "explain"}, Num(280))

\* _add_rationale_to_output(output_schema)
add_rationale_to_output(output_schema) ==
    DataSchema(output_schema.required \cup {"rationale"})

\* _create_v22_manifest(frontmatter)
create_v22_manifest ==
    [Yaml("decision", "medium", "enabled", "extensible", "set", "set")
        EXCEPT !.io = "set"]

\* _create_v22_schema(input_schema, output_schema)
create_v22_schema(output_schema) ==
    SchemaFile(create_meta_schema, TRUE, NoDataSchema,
               add_rationale_to_output(output_schema), TRUE, TRUE)

\* One entry of the changes list: the file it is about ("backup" for the
\* backup directory), and whether it is a [DRY RUN] entry
Change(dry, what) == [dry |-> dry, what |-> what]

\* what a migration returns, and the directory as it leaves it
Migrated(success, changes, warnings, dir) ==
    [success |-> success, changes |-> changes, warnings |-> warnings, dir |-> dir]

\* _migrate_from_v0 and _migrate_from_v1: output_schema is the content of
\* output.schema.json, or the output section of schema.json ({} without one)
migrate_from_v1(dir, output_schema, dry_run, changes, warnings) ==
    IF dry_run
    THEN Migrated(TRUE,
                  changes \o <<Change(TRUE, "module.yaml"), Change(TRUE, "schema.json"),
                               Change(TRUE, "prompt.md")>>,
                  warnings, dir)
    ELSE Migrated(TRUE,
                  changes \o <<Change(FALSE, "module.yaml"), Change(FALSE, "schema.json"),
                               Change(FALSE, "prompt.md")>>
                          \o (IF dir.md = "MODULE.md"
                              THEN <<Change(FALSE, "MODULE.md")>> ELSE <<>>),
                  warnings,
                  [dir EXCEPT !.yaml = create_v22_manifest,
                              !.schema = create_v22_schema(output_schema),
                              !.prompt = "v22"])

\* _migrate_from_v2, lines 256-304: the keys module.yaml lacks are added
upgrade_manifest(old) ==
    LET strictness == IF old.schema_strictness = "absent" THEN "medium"
                      ELSE old.schema_strictness
    IN  [old EXCEPT
            !.tier = IF @ = "absent" THEN "decision" ELSE @,
            !.schema_strictness = strictness,
            !.overflow = IF @ # "absent" THEN @
                         ELSE IF strictness = "high" THEN "disabled" ELSE "enabled",
            !.enums = IF @ = "absent" THEN "extensible" ELSE @,
            !.compat = IF @ = "absent" THEN "set" ELSE @,
            !.io = IF @ = "absent" THEN "set" ELSE @]

\* _migrate_from_v2, lines 306-331: meta is added, output is renamed to data
\* when there is no data, rationale is added to the required list of data
\* when there is a data, $defs is added when overflow is enabled
upgrade_schema(schema, overflow) ==
    LET renamed == schema.output.k = "dict" /\ schema.data.k = "absent"
        data    == IF renamed THEN schema.output ELSE schema.data
    IN  [schema EXCEPT
            !.meta   = IF @.k = "absent" THEN create_meta_schema ELSE @,
            !.output = IF renamed THEN NoDataSchema ELSE @,
            !.data   = IF data.k = "dict"
                       THEN [data EXCEPT !.required = @ \cup {"rationale"}]
                       ELSE data,
            !.defs   = @ \/ overflow = "enabled"]

\* schema.json as _migrate_from_v2 loads it: {} when there is no file
LoadedSchema(dir) == IF dir.schema.k = "absent" THEN EmptySchema ELSE dir.schema

\* _migrate_from_v2, lines 333-359: a file is reported, and written without
\* dry_run, when its change list is not empty
ReportAndWrite(dir, dry_run, changes, warnings, manifest, schema) ==
    Migrated(TRUE,
             changes
                 \o (IF manifest # dir.yaml
                     THEN <<Change(dry_run, "module.yaml")>> ELSE <<>>)
                 \o (IF schema # LoadedSchema(dir)
                     THEN <<Change(dry_run, "schema.json")>> ELSE <<>>)
                 \o (IF dir.prompt # "v22"
                     THEN <<Change(dry_run, "prompt.md")>> ELSE <<>>),
             warnings,
             IF dry_run THEN dir
             ELSE [dir EXCEPT !.yaml = manifest,
                              !.schema = IF schema # LoadedSchema(dir) THEN schema ELSE @,
                              !.prompt = "v22"])

\* _migrate_from_v2
migrate_from_v2(dir, dry_run, changes, warnings) ==
    ReportAndWrite(dir, dry_run, changes, warnings, upgrade_manifest(dir.yaml),
                   upgrade_schema(LoadedSchema(dir), upgrade_manifest(dir.yaml).overflow))

\* The directories of one search root: the module m is {}, and the backup
\* m_backup_<t> of a directory is its name with the second t added
DirNames == SUBSET (1 .. MaxRuns)

\* if backup and not dry_run
BackupWanted_always(dry_run, backup) == backup
BackupWanted(dry_run, backup) == backup /\ ~dry_run

\* _create_backup(module_path) at the second now, when it is wanted
BackedUp(root, name, dry_run, backup, now) ==
    IF BackupWanted(dry_run, backup)
    THEN [root EXCEPT ![name \cup {now}] = root[name]] ELSE root

BackupChange(dry_run, backup) ==
    IF BackupWanted(dry_run, backup) THEN <<Change(FALSE, "backup")>> ELSE <<>>

\* what migrate_module returns, and the root with the directory as the
\* migration left it
Left(root, name, r) ==
    [success |-> r.success, changes |-> r.changes, warnings |-> r.warnings,
     root |-> [root EXCEPT ![name] = r.dir]]

\* migrate_module(path, dry_run, backup) at the second now
migrate_module(root, name, dry_run, backup, now) ==
    LET dir == root[name]
        fmt == detect_format(dir)
    IN  IF dir.kind = "none"
        THEN Left(root, name, Migrated(FALSE, <<>>, <<"Module not found">>, dir))
        ELSE IF fmt = "FileNotFoundError"
        THEN Left(root, name,
                  Migrated(FALSE, <<>>, <<"No module.yaml, MODULE.md, or module.md">>, dir))
        ELSE IF fmt = "v2" /\ dir.yaml.tier \notin {"absent", "null"}
        THEN Left(root, name, Migrated(TRUE, <<>>, <<"already v2.2">>, dir))
        ELSE Left(BackedUp(root, name, dry_run, backup, now), name,
                  CASE fmt = "v0" ->
                           migrate_from_v1(dir, dir.v0out, dry_run,
                                           BackupChange(dry_run, backup),
                                           <<"manual review">>)
                    [] fmt = "v1" ->
                           migrate_from_v1(dir,
                                           IF dir.schema.output.k = "dict"
                                           THEN dir.schema.output ELSE DataSchema({}),
                                           dry_run, BackupChange(dry_run, backup), <<>>)
                    [] OTHER ->
                           migrate_from_v2(dir, dry_run, BackupChange(dry_run, backup),
                                           <<>>))

\* list_modules(): the directories of the root that hold a module
list_modules(root) ==
    {n \in DirNames : root[n].kind = "dir" /\ detect_format(root[n]) # "FileNotFoundError"}

\* the (success, changes, warnings) of one migrate_module
Outcome(r) == [success |-> r.success, changes |-> r.changes, warnings |-> r.warnings]

\* the results list of migrate_all_modules and the root it leaves: each
\* migrate_module touches its own directory and its own backup only
Gathered(root, now, all) ==
    [results |-> [n \in DOMAIN all |-> Outcome(all[n])],
     root |-> [n \in DirNames |->
                  IF n \in DOMAIN all THEN all[n].root[n]
                  ELSE IF now \in n /\ (n \ {now}) \in DOMAIN all
                  THEN all[n \ {now}].root[n]
                  ELSE root[n]]]

\* migrate_all_modules(dry_run, backup): one migrate_module per listed
\* directory
migrate_all_modules(root, dry_run, backup, now) ==
    Gathered(root, now,
             [n \in list_modules(root) |-> migrate_module(root, n, dry_run, backup, now)])

\* The module directories a migration starts from; every file in them parses
MigrateYamls ==
    {Yaml("absent", "absent", "absent", "absent", "absent", "absent"),
     Yaml("absent", "high", "absent", "absent", "absent", "absent"),
     Yaml("absent", "absent", "absent", "absent", "absent", "set"),
     Yaml("null", "absent", "absent", "absent", "absent", "absent"),
     Yaml("decision", "absent", "absent", "absent", "absent", "absent"),
     Yaml("absent", "absent", "enabled", "absent", "absent", "absent"),
     Yaml("absent", "absent", "absent", "strict", "absent", "absent"),
     create_v22_manifest}

MigrateSchemas ==
    {NoSchema,
     SchemaFile(NoMetaSchema, TRUE, DataSchema({"result"}), NoDataSchema, FALSE, FALSE),
     SchemaFile(NoMetaSchema, TRUE, DataSchema({"rationale"}), NoDataSchema, FALSE, FALSE),
     SchemaFile(NoMetaSchema, TRUE, NoDataSchema, DataSchema({"result"}), FALSE, FALSE),
     SchemaFile(create_meta_schema, TRUE, DataSchema({}), DataSchema({"rationale"}),
                TRUE, TRUE)}

MigrateInputs ==
    {ModuleFiles(y, "none", s, p, NoDataSchema) :
        y \in MigrateYamls, s \in MigrateSchemas, p \in {"none", "plain", "v22"}}
    \cup {ModuleFiles(NoYaml, "MODULE.md", s, "none", NoDataSchema) : s \in MigrateSchemas}
    \cup {ModuleFiles(NoYaml, "module.md", NoSchema, "none", DataSchema(r)) :
             r \in {{}, {"result"}}}

InitMigrate ==
    /\ RunnerIdle
    /\ rp = RpIdle
    /\ fn = FnIdle
    /\ \E dir \in MigrateInputs :
           LET root == [n \in DirNames |-> IF n = {} THEN dir ELSE NoModule]
           IN  fs = [phase |-> "migrate", given |-> dir, root |-> root, now |-> 0,
                     runs |-> <<>>, results |-> <<>>, before |-> root]

\* one command ran at the second now; r holds its results and the root
Migration(op, dry_run, backup, now, r) ==
    fs' = [fs EXCEPT !.root = r.root, !.now = now,
                     !.runs = Append(@, [op |-> op, dry_run |-> dry_run,
                                         backup |-> backup]),
                     !.results = r.results, !.before = fs.root]

\* the result of one migrate_module, filed under the module
Single(r) == [results |-> [n \in {{}} |-> Outcome(r)], root |-> r.root]

\* cog migrate m [--dry-run] [--no-backup]
MigrateModule ==
    /\ fs.now < MaxRuns
    /\ \E dry_run \in BOOLEAN, backup \in BOOLEAN :
           Migration("migrate_module", dry_run, backup, fs.now + 1,
                     Single(migrate_module(fs.root, {}, dry_run, backup, fs.now + 1)))
    /\ Idle

\* cog migrate --all [--dry-run] [--no-backup]
MigrateAll ==
    /\ fs.now < MaxRuns
    /\ \E dry_run \in BOOLEAN, backup \in BOOLEAN :
           Migration("migrate_all_modules", dry_run, backup, fs.now + 1,
                     migrate_all_modules(fs.root, dry_run, backup, fs.now + 1))
    /\ Idle

NextMigrate ==
    \/ MigrateModule
    \/ MigrateAll

SpecMigrate == InitMigrate /\ [][NextMigrate]_vars

----------------------------------------------------------------------------
(* validator.py validate_module(path, v22=True) called on a module          *)
(* directory                                                                *)

\* _validate_v22_format(module_path): the errors and the warnings about
\* module.yaml, prompt.md and schema.json (the warnings about excludes,
\* compat, the prompt text and the tests directory are left out)
validate_v22_format(dir) ==
    LET manifest == dir.yaml
        schema   == dir.schema
        meta     == schema.meta
        maxLength == IF meta.maxLength.k = "num" THEN meta.maxLength.n ELSE 999
        errors ==
            {e \in {"missing required field", "Invalid tier", "Invalid schema_strictness",
                    "Invalid enums.strategy", "Missing prompt.md", "Missing schema.json",
                    "Invalid JSON in schema.json", "missing meta schema",
                    "meta schema must require confidence", "meta schema must require risk",
                    "meta schema must require explain", "missing data (or output)"} :
                CASE e = "missing required field" -> ~manifest.identity
                  [] e = "Invalid tier" ->
                         manifest.tier \notin {"absent", "null", "exec", "decision",
                                               "exploration"}
                  [] e = "Invalid schema_strictness" ->
                         manifest.schema_strictness \notin {"absent", "high", "medium", "low"}
                  [] e = "Invalid enums.strategy" ->
                         manifest.enums \notin {"absent", "empty", "strict", "extensible"}
                  [] e = "Missing prompt.md" -> dir.prompt = "none"
                  [] e = "Missing schema.json" -> schema.k = "absent"
                  [] e = "Invalid JSON in schema.json" -> schema.k = "invalid"
                  [] e = "missing meta schema" -> schema.k = "dict" /\ meta.k = "absent"
                  [] e = "meta schema must require confidence" ->
                         schema.k = "dict" /\ meta.k = "dict"
                             /\ "confidence" \notin meta.required
                  [] e = "meta schema must require risk" ->
                         schema.k = "dict" /\ meta.k = "dict" /\ "risk" \notin meta.required
                  [] e = "meta schema must require explain" ->
                         schema.k = "dict" /\ meta.k = "dict"
                             /\ "explain" \notin meta.required
                  [] OTHER ->
                         schema.k = "dict" /\ schema.data.k = "absent"
                             /\ schema.output.k = "absent"}
        warnings ==
            {w \in {"missing tier", "meta.explain should have maxLength <= 280",
                    "data schema should require rationale", "missing $defs.extensions"} :
                CASE w = "missing tier" -> manifest.tier \in {"absent", "null"}
                  [] w = "meta.explain should have maxLength <= 280" ->
                         schema.k = "dict" /\ meta.k = "dict" /\ maxLength > 280
                  [] w = "data schema should require rationale" ->
                         schema.k = "dict" /\ schema.data.k = "dict"
                             /\ "rationale" \notin schema.data.required
                  [] OTHER ->
                         schema.k = "dict" /\ manifest.overflow = "enabled" /\ ~schema.defs}
    IN  [is_valid |-> errors = {}, errors |-> errors, warnings |-> warnings]

\* validate_module(path, v22=True) of a directory that exists
validate_module_v22(dir) ==
    CASE detect_format(dir) = "v2" -> validate_v22_format(dir)
      [] detect_format(dir) = "v1" ->
             [is_valid |-> FALSE, errors |-> {"Module is v1 format"}, warnings |-> {}]
      [] detect_format(dir) = "v0" ->
             [is_valid |-> FALSE, errors |-> {"Module is v0 format"}, warnings |-> {}]
      [] OTHER ->
             [is_valid |-> FALSE, errors |-> {"Missing module.yaml, MODULE.md, or module.md"},
              warnings |-> {}]

\* the module directories handed to the validator
MandatoryMeta == {"confidence", "risk", "explain"}

ValidateMetas ==
    {NoMetaSchema} \cup
    {MetaSchema(r, ml) : r \in SUBSET MandatoryMeta,
                         ml \in {Absent, Num(100), Num(280), Num(500)}}

ValidateSchemas ==
    {NoSchema, InvalidSchema} \cup
    {SchemaFile(meta, TRUE, NoDataSchema, data, TRUE, TRUE) :
        meta \in ValidateMetas,
        data \in {NoDataSchema, DataSchema({}), DataSchema({"rationale"})}}

ValidateInputs ==
    {ModuleFiles([create_v22_manifest EXCEPT !.tier = tier], "none", s, p, NoDataSchema) :
        tier \in {"decision", "absent", "bogus"}, s \in ValidateSchemas,
        p \in {"none", "v22"}}
    \cup {ModuleFiles(NoYaml, md, NoSchema, "none", NoDataSchema) :
             md \in {"MODULE.md", "module.md", "none"}}

InitValidate ==
    /\ RunnerIdle
    /\ rp = RpIdle
    /\ fs = FsIdle
    /\ \E dir \in ValidateInputs :
           fn = [f |-> "validate_module", phase |-> "start", dir |-> dir,
                 out |-> [is_valid |-> FALSE, errors |-> {}, warnings |-> {}]]

ValidateModule ==
    /\ fn.f = "validate_module"
    /\ fn.phase = "start"
    /\ fn' = [fn EXCEPT !.phase = "done", !.out = validate_module_v22(fn.dir)]
    /\ UNCHANGED <<pc, inp, result, norm, ret, hist, rp, fs>>

NextValidate == ValidateModule

SpecValidate == InitValidate /\ [][NextValidate]_vars

----------------------------------------------------------------------------
(* Properties of run_module *)

Returned == pc = "returned"

Did(step) == \E i \in DOMAIN hist : hist[i] = step

LastStep == IF hist = <<>> THEN "none" ELSE hist[Len(hist)]

\* the LLM's own v2.2 error envelope, handed back as it came
PassedThroughError == norm.ok = Bool(FALSE) /\ is_v22_envelope(inp.doc) /\ ret.env = norm

\* an ok=false envelope that the runner built: a setup, parse or validation
\* error, or the conversion of a v2.1 or legacy error
RunnerBuiltError == Returned /\ ret.env.ok = Bool(FALSE) /\ ~PassedThroughError

DataConforms(env) ==
    validate_data(GetOrEmpty(env.data), inp.data_schema, S_DataErr) = <<>>

MetaConforms(env) == validate_data(env.meta, inp.meta_schema, S_MetaErr) = <<>>

\* C1: every call of run_module returns a v2.2 envelope (boolean ok, a meta
\* object, and data or error); no exception propagates to the caller.
C1_AlwaysAnEnvelope ==
    /\ pc # "raised"
    /\ Returned =>
           /\ ret.env.ok.k = "bool"
           /\ ret.env.meta.k = "dict"
           /\ (ret.env.data.k # "absent" \/ ret.env.error.k # "absent")

\* C2: every envelope run_module returns has meta.confidence in [0,1],
\* meta.risk a string and meta.explain of length at most 280.
C2_MetaWithinBounds ==
    Returned =>
        /\ ret.env.meta.k = "dict"
        /\ ret.env.meta.confidence.k = "num"
        /\ ret.env.meta.confidence.n >= 0
        /\ ret.env.meta.confidence.n <= 100
        /\ ret.env.meta.risk.k = "str"
        /\ ret.env.meta.explain.k = "str"
        /\ Len(ret.env.meta.explain.s) <= 280

\* C3: with validate_output, a success response comes back ok=true only if
\* its data and its meta satisfy the module's schemas; otherwise it comes back
\* ok=false with SCHEMA_VALIDATION_FAILED or META_VALIDATION_FAILED.
C3_NoInvalidSuccess ==
    (Returned /\ inp.validate_output /\ norm.ok = Bool(TRUE)) =>
        \/ /\ ret.env.ok = Bool(TRUE)
           /\ DataConforms(ret.env)
           /\ MetaConforms(ret.env)
        \/ /\ ret.env.ok = Bool(FALSE)
           /\ ret.env.error.code \in {Str(S_SCHEMA_VALIDATION_FAILED),
                                      Str(S_META_VALIDATION_FAILED)}

\* C4: a returned envelope holds exactly one of data and error: data and no
\* error when ok=true, error and no data when ok=false.
C4_ExactlyOneOfDataError ==
    Returned =>
        /\ ret.env.ok = Bool(TRUE) =>
               (ret.env.data.k # "absent" /\ ret.env.error.k = "absent")
        /\ ret.env.ok = Bool(FALSE) =>
               (ret.env.error.k # "absent" /\ ret.env.data.k = "absent")

\* C5 as claimed: every ok=false envelope the runner builds itself has
\* meta.confidence = 0 and meta.risk = "high".
C5_ErrorMetaZeroHigh ==
    RunnerBuiltError =>
        (ret.env.meta.confidence = Num(0) /\ ret.env.meta.risk = Str(S_high))

\* C5 amended: every ok=false envelope the runner builds itself has
\* meta.confidence = 0 and meta.risk = "high", except the two it returns before
\* the LLM is called: MODULE_NOT_FOUND has confidence 1.0 and risk "high",
\* INVALID_INPUT has confidence 1.0 and risk "none".
C5_ErrorMetaByOrigin ==
    RunnerBuiltError =>
        CASE LastStep = "Resolve" ->
                 /\ ret.env.error.code = Str(S_MODULE_NOT_FOUND)
                 /\ ret.env.meta.confidence = Num(100)
                 /\ ret.env.meta.risk = Str(S_high)
          [] LastStep = "ValidateInput" ->
                 /\ ret.env.error.code = Str(S_INVALID_INPUT)
                 /\ ret.env.meta.confidence = Num(100)
                 /\ ret.env.meta.risk = Str(S_none)
          [] OTHER ->
                 /\ ret.env.meta.confidence = Num(0)
                 /\ ret.env.meta.risk = Str(S_high)

\* a v2.1 error without meta was converted and returned
C5_Witness ==
    /\ RunnerBuiltError
    /\ LastStep = "ValidateData"
    /\ inp.doc.ok = Bool(FALSE)
    /\ inp.doc.meta.k = "absent"
    /\ ret.env.meta.confidence = Num(0)

\* C6: when the data of an ok=true response fails the module's data schema
\* (still, after the repair pass, when repair is enabled), run_module returns
\* ok=false with error.code SCHEMA_VALIDATION_FAILED and partial_data equal to
\* the data the LLM produced.
C6_SchemaFailureCarriesData ==
    (Returned /\ inp.validate_output /\ norm.ok = Bool(TRUE) /\ ~DataConforms(result)) =>
        /\ ret.env.ok = Bool(FALSE)
        /\ ret.env.error.code = Str(S_SCHEMA_VALIDATION_FAILED)
        /\ ret.env.partial_data = GetOrNone(norm.data)

\* the LLM returned data {}, repair ran, partial_data is {}
C6_Witness ==
    /\ Returned
    /\ Did("RepairData")
    /\ LastStep = "RevalidateData"
    /\ norm.data = EmptyDict
    /\ ret.env.partial_data = EmptyDict
    /\ ret.env.error.code = Str(S_SCHEMA_VALIDATION_FAILED)

----------------------------------------------------------------------------
(* Properties of the repair pass *)

Repaired == rp.phase \in {"once", "twice"} /\ ~rp.first.raised

\* C7: the repair pass is idempotent: repairing a repaired envelope returns
\* an envelope equal to it.
C7_RepairIdempotent ==
    rp.phase = "twice" => (~rp.second.raised /\ rp.second.ret = rp.first.ret)

\* an over-long padded explain and an unclamped confidence were repaired,
\* and the second pass ran
C7_Witness ==
    /\ rp.phase = "twice"
    /\ rp.E.meta.explain.k = "str"
    /\ Len(rp.E.meta.explain.s) > max_explain_length
    /\ rp.E.meta.confidence = Num(170)
    /\ rp.first.ret.meta # rp.E.meta

\* C8: the repair pass never modifies the envelope it is given: after the
\* call the argument, its meta included, is what it was before.
C8_ArgumentUntouched ==
    rp.phase \in {"once", "twice"} => rp.first.arg = rp.E

\* C9: the repair pass changes nothing outside meta: ok, data and error of
\* the result are those of the argument (no data field altered, omitted or
\* reordered), and the argument's own data is left as it was.
C9_OnlyMetaChanges ==
    Repaired =>
        /\ rp.first.ret.ok = rp.E.ok
        /\ rp.first.ret.data = rp.E.data
        /\ rp.first.ret.error = rp.E.error
        /\ rp.first.ret.partial_data = rp.E.partial_data
        /\ rp.first.arg.data = rp.E.data

\* repair filled a missing meta from a payload and left the payload alone
C9_Witness ==
    /\ Repaired
    /\ rp.E.meta.k = "absent"
    /\ rp.E.data.confidence = Num(80)
    /\ rp.first.ret.meta.confidence = Num(80)
    /\ rp.first.ret.data.order = <<"confidence", "rationale", "changes">>

----------------------------------------------------------------------------
(* Properties of wrap_v21_to_v22 *)

\* C11: conversion to v2.2 is idempotent: for a legacy document or a v2.1
\* envelope E, success or error, that wrap_v21_to_v22 converts, converting
\* the result again gives an equal envelope; and an envelope that is already
\* v2.2 comes back unchanged from the first call.
C11_WrapIdempotent ==
    /\ (fn.phase = "twice") =>
           (~fn.second.raised /\ fn.second.ret = fn.first.ret)
    /\ (fn.phase \in {"once", "twice"} /\ is_v22_envelope(fn.E)) =>
           (~fn.first.raised /\ fn.first.ret = fn.E)

\* a v2.1 success whose meta was derived from its payload, converted again
C11_Witness ==
    /\ fn.phase = "twice"
    /\ fn.E.ok = Bool(TRUE)
    /\ fn.E.meta.k = "absent"
    /\ fn.E.data.confidence = Num(80)
    /\ fn.first.ret.meta = Meta(Num(80), Str(S_high), Str(S_R))
    /\ fn.second.ret = fn.first.ret

----------------------------------------------------------------------------
(* Properties of aggregate_risk_from_list *)

\* the level an item counts for: its canonical risk, else medium
CountedLevel(it) == IF IsCanonicalRisk(it.risk) THEN RISK_LEVELS_get(it.risk) ELSE 2

\* C12: aggregate_risk_from_list(L) returns, for every list L of
\* risk-bearing items, the maximum of the items' risks under
\* none < low < medium < high, an item whose risk is missing or not a
\* canonical value counting as medium and never making the call fail; the
\* result for the empty list is medium.
C12_AggregateIsMax ==
    (fn.phase = "done") =>
        /\ ~fn.out.raised
        /\ IF fn.L.items = <<>>
           THEN fn.out.v = S_medium
           ELSE LET levels == {CountedLevel(fn.L.items[i]) : i \in DOMAIN fn.L.items}
                    top == CHOOSE m \in levels : \A l \in levels : l <= m
                IN  fn.out.v = RISK_NAMES[top + 1]

----------------------------------------------------------------------------
(* Properties of validate_v22_envelope *)

\* an envelope that is valid under the v2.2 wire format
ValidV22Meta(meta) ==
    /\ meta.k = "dict"
    /\ meta.confidence.k = "num" /\ 0 <= meta.confidence.n /\ meta.confidence.n <= 100
    /\ IsCanonicalRisk(meta.risk) \/ meta.risk.k = "obj"
    /\ meta.explain.k = "str" /\ Len(meta.explain.s) <= 280

ValidV22(E) ==
    /\ E.ok.k = "bool"
    /\ ValidV22Meta(E.meta)
    /\ IF E.ok = Bool(TRUE)
       THEN E.data.k = "dict" /\ E.data.rationale.k = "str" /\ E.error.k = "absent"
       ELSE E.error.k = "dict" /\ E.error.code.k = "str" /\ E.error.message.k = "str"
            /\ E.data.k = "absent"

\* C13: validate_v22_envelope returns (True, []) for every envelope that is
\* valid under the v2.2 wire format: boolean ok; meta with confidence in
\* [0,1], risk one of none/low/medium/high or an extensibility object
\* {custom, reason}, explain of at most 280 characters; a data object (with
\* its rationale) on success, an error with code and message on failure.
C13_ValidEnvelopeAccepted ==
    (fn.phase = "done" /\ ValidV22(fn.E)) =>
        (~fn.out.raised /\ fn.out.valid /\ fn.out.errors = <<>>)

----------------------------------------------------------------------------
(* Properties of run_module: version, derived meta *)

\* C14: every envelope run_module returns carries the version field with the
\* value "2.2", stamped by the runner and never taken from the LLM.
C14_VersionStamped ==
    Returned => ret.env.version = Str(S_2_2)


\* the risk the module's configured rule gives for a payload: medium under
\* "explicit", else the maximum over data.issues (max_issues_risk) or over
\* data.changes (any other rule), medium for a missing or empty list
ExpectedRisk(data, risk_rule) ==
    LET lst == IF risk_rule = "max_issues_risk" THEN data.issues ELSE data.changes
        levels == {CountedLevel(lst.items[i]) : i \in DOMAIN lst.items}
    IN  IF risk_rule = "explicit" \/ lst.k = "absent" \/ lst.items = <<>>
        THEN S_medium
        ELSE RISK_NAMES[(CHOOSE m \in levels : \A l \in levels : l <= m) + 1]

\* the LLM answered a legacy document or a v2.1 success envelope, and
\* run_module returned the success envelope made of it
ReturnedConverted ==
    /\ Returned
    /\ inp.llm = "object"
    /\ ~is_v22_envelope(inp.doc)
    /\ inp.doc.error.k = "absent"
    /\ ret.env.ok = Bool(TRUE)

\* the payload of the LLM's answer: the whole document when it is legacy
AnsweredPayload ==
    IF is_envelope_response(inp.doc) THEN GetOrEmpty(inp.doc.data)
    ELSE [inp.doc.top EXCEPT !.k = "dict", !.ok = inp.doc.ok]

\* C15: when the LLM returns a legacy document or a v2.1 success envelope,
\* the meta of the returned envelope has risk equal to the aggregation under
\* the module's configured risk rule, confidence equal to data.confidence
\* (0.5 when the payload has none) and explain equal to data.rationale cut
\* to 280; for a legacy document the whole document is the data.
C15_DerivedMetaFollowsRule ==
    ReturnedConverted =>
        /\ ret.env.meta.risk = Str(ExpectedRisk(AnsweredPayload, inp.risk_rule))
        /\ (AnsweredPayload.confidence.k = "absent") =>
               ret.env.meta.confidence = Num(50)
        /\ (AnsweredPayload.confidence.k = "num"
                /\ AnsweredPayload.confidence.n \in 1..100) =>
               ret.env.meta.confidence = AnsweredPayload.confidence
        /\ (AnsweredPayload.rationale.k = "str" /\ AnsweredPayload.rationale.s # <<>>) =>
               ret.env.meta.explain = Str(str_prefix(AnsweredPayload.rationale.s, 280))
        /\ ret.env.data = AnsweredPayload

----------------------------------------------------------------------------
(* Properties of substitute_arguments *)

\* what a piece of the template stands for: $ARGUMENTS the whole argument
\* string, $N and $ARGUMENTS[N] the N-th word (the placeholder itself when
\* there is no such word), literal text itself
Expansion(piece, whole, words) ==
    CASE piece.kind = "all" -> whole
      [] piece.kind \in {"indexed", "dollar"} /\ piece.n < Len(words) -> words[piece.n + 1]
      [] OTHER -> Render(piece)

\* C16: prompt substitution replaces each $N and $ARGUMENTS[N] by the N-th
\* whitespace-separated word of the argument string and $ARGUMENTS by the
\* whole string, a lower index never matching part of a higher one and
\* $ARGUMENTS never matching inside $ARGUMENTS[N].
C16_SubstitutionByPlaceholder ==
    (fn.phase = "done" /\ ArgsValue(fn.input_data).k = "str") =>
        LET whole == ArgsValue(fn.input_data).s
            words == str_split(whole)
        IN  fn.out = Concat([i \in DOMAIN fn.pieces |->
                                 Expansion(fn.pieces[i], whole, words)])

----------------------------------------------------------------------------
(* Properties of the registry *)

\* the search roots in the order project-local, user-global, system-wide,
\* then the extra roots of the override in the order given
RootsInOrder == SEARCH_PATHS \o fs.env

\* C17: find_module returns the module from the first root that holds it,
\* the roots taken in the order project-local, user-global, system-wide and
\* then the extra roots of the override string in the order given.
C17_FirstRootWins ==
    (fs.last.cmd = "find") =>
        LET holders == {i \in DOMAIN RootsInOrder :
                            is_valid_module(fs.disk[<<RootsInOrder[i], fs.last.name>>])}
        IN  IF holders = {} THEN fs.last.out = "None"
            ELSE fs.last.out = RootsInOrder[CHOOSE i \in holders : \A j \in holders : i <= j]

\* C18: after uninstall_module(name) returned for an installed module, the
\* user-global directory of the module and the manifest entry of the name
\* are both gone: get_installed_module_info(name) gives nothing, and an
\* update_module(name) that follows fails as not installed.
C18_UninstallRemovesAll ==
    /\ (fs.last.cmd = "uninstall" /\ fs.last.name = ModName /\ fs.last.out = TRUE) =>
           /\ fs.disk[<<USER_MODULES_DIR, ModName>>] = NoDir
           /\ get_installed_module_info(fs.manifest, ModName) = NoEntry
    /\ (fs.last.cmd = "update" /\ fs.before.removed) =>
           fs.last.out = "ValueError: not installed"

\* C19: uninstall_module (and the uninstall command) never deletes a
\* directory outside the user-global modules root: for a name with a ".."
\* segment or an absolute name it removes nothing.
C19_UninstallStaysInRoot ==
    (fs.last.cmd \in {"uninstall", "uninstall_cmd"}) =>
        /\ \A p \in DiskPaths : p[1] # USER_MODULES_DIR => fs.disk[p] = fs.before.disk[p]
        /\ fs.last.name # ModName => fs.disk = fs.before.disk

\* C20: when a module fails validation after it was installed, the install
\* is rolled back: the user-global modules directory and the install
\* manifest are as they were before the install began.
C20_FailedInstallRolledBack ==
    (fs.last.cmd \in {"install", "add"} /\ fs.last.out = "validation_failed") =>
        /\ fs.disk = fs.before.disk
        /\ fs.manifest = fs.before.manifest

\* C21: update_module(name) is supported only when the install manifest
\* records a remote URL for the name.  For a module that is absent from the
\* manifest or was installed from a local path it fails and leaves the module
\* directories and the manifest as they were; when supported, the install it
\* completes is made with the stored module_path, branch and tag.
C21_UpdateOnlyFromRemote ==
    (fs.last.cmd = "update") =>
        LET info == get_installed_module_info(fs.before.manifest, ModName)
            now  == get_installed_module_info(fs.manifest, ModName)
        IN  IF info.k = "absent" \/ info.github_url = "none"
            THEN /\ fs.last.out # "updated"
                 /\ fs.disk = fs.before.disk
                 /\ fs.manifest = fs.before.manifest
            ELSE fs.last.out = "updated" =>
                     /\ now.github_url = info.github_url
                     /\ now.module_path = info.module_path
                     /\ now.branch = info.branch
                     /\ now.tag = info.tag

----------------------------------------------------------------------------
(* Properties of the install manifest *)

\* C22: the install manifest is written atomically: whenever a reader opens
\* the manifest file while installs run, it finds the complete old content
\* or a complete new content (or no file), never an empty or partly written
\* file.
C22_ManifestWrittenAtomically ==
    (fs.initial.state \in {"missing", "whole"} /\ fs.seen # NoRead) =>
        fs.seen.state \in {"missing", "whole"}

\* C29: recording an install drops no entry of another module: when the
\* installs that run have all completed, the manifest holds the entry of
\* every module whose install completed and every entry it held before.
C29_NoEntryDropped ==
    (\A p \in Installers : fs.procs[p].pc = "done") =>
        /\ fs.file.state = "whole"
        /\ \A p \in Installers : InstalledName[p] \in fs.file.entries
        /\ fs.initial.entries \subseteq fs.file.entries

----------------------------------------------------------------------------
(* Properties of the migration *)

\* the command that ran last, and the module directory it found
LastRun == fs.runs[Len(fs.runs)]
Ran1(op) == fs.phase = "migrate" /\ fs.runs # <<>> /\ LastRun.op = op

\* the module files named by the entries of a changes list
ModuleFileNames == {"module.yaml", "schema.json", "prompt.md"}
ReportedFiles(changes) ==
    {changes[i].what : i \in DOMAIN changes} \cap ModuleFileNames

\* the module files whose content differs between two directories
ChangedFiles(d1, d2) ==
    {f \in ModuleFileNames :
        CASE f = "module.yaml" -> d1.yaml # d2.yaml
          [] f = "schema.json" -> d1.schema # d2.schema
          [] OTHER             -> d1.prompt # d2.prompt}

\* what a dry run returned against the run without dry_run on the same
\* directory: the same success, the same files named, and every file the
\* real run changes is named
DryMatchesReal(dry, dir, real) ==
    /\ dry.success = real.success
    /\ ReportedFiles(dry.changes) = ReportedFiles(real.changes)
    /\ ChangedFiles(dir, real.root[{}]) \subseteq ReportedFiles(dry.changes)

V22Shaped(dir) ==
    /\ dir.yaml.k = "dict"
    /\ \/ dir.yaml.tier # "absent"
       \/ dir.yaml.overflow # "absent"
       \/ dir.yaml.enums # "absent"

\* C24: migrate_module is a no-op on every module whose module.yaml carries
\* any of the keys tier, overflow or enums: it succeeds, writes no file,
\* creates no backup and reports an empty change list.
C24_MigrateTwiceIsNoOp ==
    (Ran1("migrate_module") /\ V22Shaped(fs.before[{}])) =>
        /\ fs.results[{}].success
        /\ fs.results[{}].changes = <<>>
        /\ fs.root = fs.before

\* C25: for a module of format v0, v1, v2.0 or v2.1, with or without a
\* schema.json, loading it after a migrate_module without dry_run gives
\* format_version "v2.2" and a data schema whose required list holds
\* rationale.
C25_MigratedLoadsAsV22 ==
    LET M == fs.before[{}]
    IN  (/\ Ran1("migrate_module") /\ ~LastRun.dry_run
         /\ \/ detect_format(M) \in {"v0", "v1"}
            \/ detect_format(M) = "v2" /\ detect_v2_version(M.yaml) \in {"v2.0", "v2.1"})
        => /\ detect_format(fs.root[{}]) = "v2"
           /\ load_v2_format(fs.root[{}]).format_version = "v2.2"
           /\ "rationale" \in load_v2_format(fs.root[{}]).data_schema.required

\* C28: after one migrate_all_modules run without dry_run and with backup,
\* a second migrate_all_modules run changes no file and creates no
\* directory, and the backup directories of the first run are not among the
\* modules it lists and migrates.
C28_MigrateAllTwiceIsNoOp ==
    (/\ Ran1("migrate_all_modules") /\ Len(fs.runs) >= 2
     /\ fs.runs[Len(fs.runs) - 1] =
            [op |-> "migrate_all_modules", dry_run |-> FALSE, backup |-> TRUE])
    => /\ fs.root = fs.before
       /\ DOMAIN fs.results \subseteq {{}}

----------------------------------------------------------------------------
(* Properties of validate_module *)

\* C26: validate_module with v22=True reports a module as invalid whenever
\* its meta schema is missing, does not require all of confidence, risk and
\* explain, or does not bound explain with a maxLength of at most 280.
C26_MetaSchemaEnforced ==
    (fn.f = "validate_module" /\ fn.phase = "done") =>
        LET meta == fn.dir.schema.meta
        IN  (\/ fn.dir.schema.k # "dict"
             \/ meta.k # "dict"
             \/ ~(MandatoryMeta \subseteq meta.required)
             \/ meta.maxLength.k # "num"
             \/ meta.maxLength.n > 280)
            => ~fn.out.is_valid

----------------------------------------------------------------------------
(* Properties of run_module: the order of the steps, repair and data *)

\* the steps every call starts with, and the stage of each step: data and
\* meta are the two halves of Validate, of Repair and of Re-Validate
PipelineOrder ==
    <<"Resolve", "LoadModule", "ValidateInput", "BuildPrompt", "CallLLM", "Parse",
      "Normalize">>

Stage(step) ==
    CASE step \in {"ValidateData", "ValidateMeta"}     -> 8
      [] step \in {"RepairData", "RepairMeta"}         -> 9
      [] step \in {"RevalidateData", "RevalidateMeta"} -> 10
      [] OTHER -> CHOOSE i \in DOMAIN PipelineOrder : PipelineOrder[i] = step

InputRejected ==
    /\ inp.validate_input
    /\ inp.input_schema # "none"
    /\ validate_data(inp.input_data, inp.input_schema, S_InputErr) # <<>>

StepsInOrder ==
    /\ \A i \in DOMAIN hist :
           IF i <= Len(PipelineOrder) THEN hist[i] = PipelineOrder[i]
           ELSE Stage(hist[i]) >= 8
    /\ \A i, j \in DOMAIN hist :
           i < j => \/ Stage(hist[i]) < Stage(hist[j])
                    \/ hist[i] = "ValidateData" /\ hist[j] = "ValidateMeta"
    /\ Did("CallLLM") => (inp.path_is_dir \/ inp.found) /\ ~InputRejected
    /\ \A i \in DOMAIN hist :
           /\ hist[i] = "RepairData" =>
                  hist[i - 1] = "ValidateData" /\ ~DataConforms(norm)
           /\ hist[i] = "RepairMeta" =>
                  hist[i - 1] = "ValidateMeta" /\ ~MetaConforms(norm)

\* C27: within one run_module call the steps happen in the order Resolve,
\* LoadModule, ValidateInput, BuildPrompt, CallLLM, Parse, Normalize,
\* Validate, Repair, Re-Validate; the LLM is not called when the module is
\* not found or the input is rejected, the repair pass runs only after a
\* validation failure, and no step runs once an envelope was returned.
C27_StepsInOrder ==
    /\ []StepsInOrder
    /\ [][ret.kind # "none" => hist' = hist]_vars

\* a call that went through every stage: the meta failed, was repaired and
\* validated again
C27_Witness ==
    /\ Returned
    /\ hist = PipelineOrder \o <<"ValidateData", "ValidateMeta", "RepairMeta",
                                 "RevalidateMeta">>

====
